---- MODULE Spec2Model ----
(***************************************************************************)
(* The monthly simulation cycle of parushini: World.advance_month,         *)
(* run_month and its phases (desires, planning, targeting, proposal        *)
(* evaluation, outcome application, solo effects, diaries) and             *)
(* run_full_simulation.                                                    *)
(*                                                                         *)
(* Numbers.  The program computes with floats.  Here a 0-100 scalar x is   *)
(* the integer 100*x (hundredths: 50.0 is 5000), a quantity of [0,1]       *)
(* (destiny seed, blessing, bias, probability, a random.random() draw) is  *)
(* the integer 10000*x, and a trait (0-10, whole in every archetype) is    *)
(* itself.  Every division rounds down (\div).                             *)
(*                                                                         *)
(* None is the string "None"; a missing month (last_time) is -1.           *)
(***************************************************************************)
EXTENDS Integers, Sequences, FiniteSets, TLC

VARIABLES
    agents,               \* World.agents: the list of Agent objects
    current_month,        \* World.current_month
    total_months,         \* World.total_months
    global_themes,        \* World.global_themes
    destiny_strength,     \* World.destiny_strength
    agent_overrides,      \* World.agent_overrides: label -> AgentOverride
    events_feed,          \* World.events_feed.entries: month -> list of events
    DESTINY_STRENGTH,     \* the module global of logic/destiny.py
    rng,                  \* the state of the process-wide generator of `random`
    pc,                   \* the position inside run_month / a direct call
    idx,                  \* the index of the loop the position is in
    entry,                \* the entry point the environment called
    global_theme,         \* run_month: the value advance_month returned
    agent_interaction_log,\* run_month: label -> log lines of this month
    pending_boosts,       \* run_month: label -> <<domain, amount>>
    actions,              \* run_month: the current agent's planned actions
    all_actions,          \* run_month: every agent's actions, in order
    agent_actions_map,    \* run_month: label -> that agent's actions
    proposals,            \* the proposals being evaluated
    resolved,             \* the resolved interactions
    fs_pc,                \* the position inside run_full_simulation
    history,              \* WorldHistory.snapshots
    fs_start,             \* history variable: current_month when run_full_simulation was called
    phase_done,           \* history variable: steps taken per phase this month
    direct_calls,         \* history variable: direct calls made so far
    last_call,            \* history variable: the latest direct call, its arguments
    replay                \* history variable of the replay specification

worldVars == <<agents, current_month, total_months, global_themes,
               destiny_strength, agent_overrides, events_feed>>
frameVars == <<global_theme, agent_interaction_log, pending_boosts, actions,
               all_actions, agent_actions_map, proposals, resolved>>
vars == <<agents, current_month, total_months, global_themes, destiny_strength,
          agent_overrides, events_feed, DESTINY_STRENGTH, rng, pc, idx, entry,
          global_theme, agent_interaction_log, pending_boosts, actions,
          all_actions, agent_actions_map, proposals, resolved, fs_pc, history,
          fs_start, phase_done, direct_calls, last_call, replay>>

None == "None"
NoTime == 0 - 1

(***************************************************************************)
(* Bounds of the model.                                                    *)
(***************************************************************************)
\* the largest total_months of a hand-built World
MaxMonths == 2
\* direct calls of evaluate_interaction_proposals the environment makes
MaxDirectCalls == 1
\* direct calls of update_memory_for and update_agent_desires in a row
MaxCalls == 2

(***************************************************************************)
(* Arithmetic helpers.                                                     *)
(***************************************************************************)
Min(a, b) == IF a <= b THEN a ELSE b
Max(a, b) == IF a >= b THEN a ELSE b
Abs(a) == IF a >= 0 THEN a ELSE 0 - a

\* max(low, min(high, value)) with no upper limit: a clamp that lost its min()
clamp_no_upper(value, low, high) == Max(low, value)

\* core/simulator.py clamp; the same max(low, min(high, value)) is written
\* inline throughout the logic modules
clamp(value, low, high) == Max(low, Min(high, value))

Clamp100(value) == clamp(value, 0, 10000)

\* format(x, ".0f") of a value in hundredths: round half to even
RoundHalfEven(x) ==
    LET a == Abs(x)
        q == a \div 100
        r == a % 100
        n == IF r > 50 \/ (r = 50 /\ q % 2 = 1) THEN q + 1 ELSE q
    IN  IF x >= 0 THEN n ELSE 0 - n

Range(s) == {s[i] : i \in DOMAIN s}

RECURSIVE SumSeq(_)
SumSeq(s) == IF s = <<>> THEN 0 ELSE Head(s) + SumSeq(Tail(s))

\* sorted(items, key=..., reverse=True): descending and stable, so equal keys
\* keep their original order
SortedDesc(s, key) ==
    LET n == Len(s)
        rank(i) == Cardinality({j \in 1..n :
                        key[j] > key[i] \/ (key[j] = key[i] /\ j < i)}) + 1
    IN  [r \in 1..n |-> s[CHOOSE i \in 1..n : rank(i) = r]]

(***************************************************************************)
(* The random source.  `random` is a seeded, deterministic generator whose *)
(* state advances with every draw; it is modelled by a full-period linear  *)
(* congruential generator over 16 states.  random.random() is rng/16.      *)
(***************************************************************************)
RngStates == 0..15
NextRng(s) == (5 * s + 3) % 16
\* random.random(), in [0, 1)
Random01(s) == s * 625
\* random.uniform(a, b) = a + (b - a) * random.random(); a, b in any one scale
Uniform(s, a, b) == a + ((b - a) * Random01(s)) \div 10000

(***************************************************************************)
(* Archetypes and agents.                                                  *)
(***************************************************************************)
Arch(n, l, lo, dr, so, st, cu, cr, hw, ib, wa, im, ts, md) ==
    [name |-> n, label |-> l, love_orientation |-> lo, drive |-> dr,
     sociability |-> so, stability |-> st, curiosity |-> cu, creativity |-> cr,
     hardworking |-> hw, intelligence_base |-> ib, warmth |-> wa,
     impulse |-> im, trauma_sensitivity |-> ts, memory_depth |-> md]

get_default_archetypes ==
    << Arch("Vayu",    "vayu",    7, 8, 6, 4, 9, 7, 5, 7, 6, 8, 5, 5),
       Arch("Agni",    "agni",    6, 9, 7, 5, 7, 8, 8, 7, 5, 7, 6, 6),
       Arch("Dhara",   "dhara",   8, 6, 8, 7, 5, 6, 7, 6, 8, 4, 7, 8),
       Arch("Jvala",   "jvala",   5, 9, 5, 3, 8, 9, 6, 8, 4, 9, 4, 4),
       Arch("Neer",    "neer",    9, 5, 7, 8, 6, 7, 6, 7, 9, 3, 8, 9),
       Arch("Kash",    "kash",    4, 7, 4, 6, 7, 5, 8, 8, 3, 5, 5, 7),
       Arch("Vrishti", "vrishti", 7, 6, 9, 6, 8, 8, 5, 6, 8, 6, 7, 6),
       Arch("Pashan",  "pashan",  5, 5, 3, 9, 4, 4, 9, 6, 4, 2, 3, 9),
       Arch("Ahnil",   "ahnil",   6, 8, 6, 7, 6, 6, 7, 8, 6, 5, 6, 7),
       Arch("Prith",   "prith",   8, 7, 8, 8, 5, 5, 8, 7, 9, 3, 8, 8) >>

\* raw = (curiosity + creativity + love_orientation + memory_depth) / 40;
\* seed = min(1, max(0, raw * (0.6 + stability / 20)))
generate_destiny_seed(arch) ==
    LET sum == arch.curiosity + arch.creativity + arch.love_orientation
               + arch.memory_depth
    IN  clamp((sum * (12 + arch.stability) * 25) \div 2, 0, 10000)

\* Agent._capture_state_snapshot
capture_state_snapshot(a) ==
    [physical |-> a.physical, love |-> a.love, career |-> a.career,
     social |-> a.social, intelligence |-> a.intelligence,
     energy |-> a.energy, trauma_level |-> a.trauma_level]

NoSnapshot ==
    [physical |-> NoTime, love |-> NoTime, career |-> NoTime, social |-> NoTime,
     intelligence |-> NoTime, energy |-> NoTime, trauma_level |-> NoTime]

\* AgentMemory(): the dataclass defaults
AgentMemory ==
    [trust |-> 5000, attraction |-> 5000, familiarity |-> 0,
     last_interaction_type |-> None, last_result |-> None, last_time |-> NoTime]

EmptyMap == [x \in {} |-> 0]

\* Agent.from_archetype followed by reset_state.  The narrative fields
\* (soul_note, personality_summary, initial_goals) are never read by the
\* simulation cycle and are left out.
from_archetype(arch) ==
    LET a == [name |-> arch.name, label |-> arch.label,
              love_orientation |-> arch.love_orientation, drive |-> arch.drive,
              sociability |-> arch.sociability, stability |-> arch.stability,
              curiosity |-> arch.curiosity, creativity |-> arch.creativity,
              hardworking |-> arch.hardworking,
              intelligence_base |-> arch.intelligence_base,
              warmth |-> arch.warmth, impulse |-> arch.impulse,
              trauma_sensitivity |-> arch.trauma_sensitivity,
              memory_depth |-> arch.memory_depth,
              destiny_seed |-> generate_destiny_seed(arch),
              destiny_blessing |-> 0, locked_action_domain |-> None,
              physical |-> 5000, love |-> 5000, career |-> 5000,
              social |-> 5000, intelligence |-> 5000, energy |-> 5000,
              trauma_level |-> 0,
              desire_love |-> 0, desire_career |-> 0, desire_social |-> 0,
              desire_physical |-> 0, desire_learning |-> 0, desire_rest |-> 0,
              memory |-> EmptyMap, luck_enabled |-> TRUE,
              diary_log |-> EmptyMap, last_state_snapshot |-> NoSnapshot]
    IN  [a EXCEPT !.last_state_snapshot = capture_state_snapshot(a)]

(***************************************************************************)
(* Destiny bias (logic/destiny.py).                                        *)
(***************************************************************************)
\* set_destiny_strength: the value stored in the module global
set_destiny_strength(value) == clamp(value, 0, 10000)

get_destiny_bias(agent) ==
    LET base == clamp(agent.destiny_seed + agent.destiny_blessing, 0, 10000)
        bias == (base * DESTINY_STRENGTH) \div 10000
    IN  clamp(bias, 0, 15000)

\* the adjustment pulls low desires the other way: subtracted under 50
apply_destiny_bias_contrarian(agent, value) ==
    LET bias == get_destiny_bias(agent)
        adjustment == ((bias - 5000) * 8) \div 100
    IN  IF value < 5000
        THEN clamp(value - adjustment, 0, 10000)
        ELSE clamp(value + adjustment, 0, 10000)

apply_destiny_bias(agent, value) ==
    LET bias == get_destiny_bias(agent)
        adjustment == ((bias - 5000) * 8) \div 100
    IN  clamp(value + adjustment, 0, 10000)

(***************************************************************************)
(* Desire engine (logic/desires.py).                                       *)
(***************************************************************************)
Domains == <<"love", "career", "social", "physical", "learning", "rest">>
DomainSet == Range(Domains)

\* CHAOS with the rest desire raised by half the bonus like the others, and
\* CAREER_HUSTLE not recognised
theme_bonus_flat_chaos(theme, domain) ==
    CASE theme = "ROMANCE" -> IF domain = "love" THEN 1500 ELSE 0
      [] theme = "CAREER" -> IF domain = "career" THEN 1500 ELSE 0
      [] theme = "CHAOS" ->
            IF domain \in {"love", "career", "social", "rest"} THEN 750 ELSE 0
      [] theme = "SELF_HELP" ->
            IF domain \in {"learning", "physical"} THEN 1500 ELSE 0
      [] theme \in {"SCIENCE", "CURIOSITY"} ->
            IF domain = "learning" THEN 1500 ELSE 0
      [] OTHER -> 0

\* the bonus a theme adds to the desire of a domain
theme_bonus(theme, domain) ==
    CASE theme = "ROMANCE" -> IF domain = "love" THEN 1500 ELSE 0
      [] theme \in {"CAREER", "CAREER_HUSTLE"} ->
            IF domain = "career" THEN 1500 ELSE 0
      [] theme = "CHAOS" ->
            IF domain \in {"love", "career", "social"} THEN 750
            ELSE IF domain = "rest" THEN 1050 ELSE 0
      [] theme = "SELF_HELP" ->
            IF domain \in {"learning", "physical"} THEN 1500 ELSE 0
      [] theme \in {"SCIENCE", "CURIOSITY"} ->
            IF domain = "learning" THEN 1500 ELSE 0
      [] OTHER -> 0

\* the love desire added onto the one of the month before, not set anew
update_agent_desires_accumulating(agent, theme) ==
    LET love_deficit == Max(0, 10000 - agent.love)
        career_deficit == Max(0, 10000 - agent.career)
        social_deficit == Max(0, 10000 - agent.social)
        physical_deficit == Max(0, 10000 - agent.physical)
        intelligence_deficit == Max(0, 10000 - agent.intelligence)
        \* energy_factor * 40, trauma_factor * 20 and * 30, stability_factor * 20
        energy_part == ((10000 - agent.energy) * 40) \div 100
        trauma_love == (agent.trauma_level * 20) \div 100
        trauma_rest == (agent.trauma_level * 30) \div 100
        stability_part == (10 - agent.stability) * 200
        d_love == agent.love_orientation * 500 + (love_deficit * 3) \div 10
                  - trauma_love
        d_career == agent.drive * 500 + (career_deficit * 3) \div 10
        d_social == agent.sociability * 500 + (social_deficit * 3) \div 10
        d_physical == (physical_deficit * 4) \div 10
        d_learning == agent.curiosity * 500 + (intelligence_deficit * 3) \div 10
        d_rest == energy_part + trauma_rest + stability_part
    IN  [agent EXCEPT
           !.desire_love = Clamp100(agent.desire_love + d_love + theme_bonus(theme, "love")),
           !.desire_career = Clamp100(d_career + theme_bonus(theme, "career")),
           !.desire_social = Clamp100(d_social + theme_bonus(theme, "social")),
           !.desire_physical =
               Clamp100(d_physical + theme_bonus(theme, "physical")),
           !.desire_learning =
               Clamp100(d_learning + theme_bonus(theme, "learning")),
           !.desire_rest = Clamp100(d_rest + theme_bonus(theme, "rest"))]

update_agent_desires(agent, theme) ==
    LET love_deficit == Max(0, 10000 - agent.love)
        career_deficit == Max(0, 10000 - agent.career)
        social_deficit == Max(0, 10000 - agent.social)
        physical_deficit == Max(0, 10000 - agent.physical)
        intelligence_deficit == Max(0, 10000 - agent.intelligence)
        \* energy_factor * 40, trauma_factor * 20 and * 30, stability_factor * 20
        energy_part == ((10000 - agent.energy) * 40) \div 100
        trauma_love == (agent.trauma_level * 20) \div 100
        trauma_rest == (agent.trauma_level * 30) \div 100
        stability_part == (10 - agent.stability) * 200
        d_love == agent.love_orientation * 500 + (love_deficit * 3) \div 10
                  - trauma_love
        d_career == agent.drive * 500 + (career_deficit * 3) \div 10
        d_social == agent.sociability * 500 + (social_deficit * 3) \div 10
        d_physical == (physical_deficit * 4) \div 10
        d_learning == agent.curiosity * 500 + (intelligence_deficit * 3) \div 10
        d_rest == energy_part + trauma_rest + stability_part
    IN  [agent EXCEPT
           !.desire_love = Clamp100(d_love + theme_bonus(theme, "love")),
           !.desire_career = Clamp100(d_career + theme_bonus(theme, "career")),
           !.desire_social = Clamp100(d_social + theme_bonus(theme, "social")),
           !.desire_physical =
               Clamp100(d_physical + theme_bonus(theme, "physical")),
           !.desire_learning =
               Clamp100(d_learning + theme_bonus(theme, "learning")),
           !.desire_rest = Clamp100(d_rest + theme_bonus(theme, "rest"))]

\* getattr(agent, "desire_" + domain)
DesireOf(agent, domain) ==
    CASE domain = "love" -> agent.desire_love
      [] domain = "career" -> agent.desire_career
      [] domain = "social" -> agent.desire_social
      [] domain = "physical" -> agent.desire_physical
      [] domain = "learning" -> agent.desire_learning
      [] domain = "rest" -> agent.desire_rest

\* setattr(agent, "desire_" + domain, value)
SetDesire(agent, domain, value) ==
    CASE domain = "love" -> [agent EXCEPT !.desire_love = value]
      [] domain = "career" -> [agent EXCEPT !.desire_career = value]
      [] domain = "social" -> [agent EXCEPT !.desire_social = value]
      [] domain = "physical" -> [agent EXCEPT !.desire_physical = value]
      [] domain = "learning" -> [agent EXCEPT !.desire_learning = value]
      [] domain = "rest" -> [agent EXCEPT !.desire_rest = value]

(***************************************************************************)
(* Planned actions (logic/actions.py).  An Optional list is <<>> for None  *)
(* and <<list>> for a list.                                                *)
(***************************************************************************)
NoneList == <<>>
Some(list) == <<list>>
\* `if x:` for an Optional list: neither None nor empty
Truthy(opt) == opt # <<>> /\ opt[1] # <<>>
\* the list of an Optional list, None read as the empty list
ListOf(opt) == IF opt = <<>> THEN <<>> ELSE opt[1]

BigActionTypes == {"DEEP_WORK", "DEEP_RELATIONSHIP", "BIG_SOCIAL_EVENT",
                   "DEEP_STUDY", "MAJOR_REST", "HEALTH_PUSH"}
SmallActionTypes == {"LIGHT_SOCIAL", "LIGHT_EXERCISE", "CASUAL_DATE",
                     "CASUAL_LEARNING", "HOBBY", "MINOR_REST"}
ActionType == BigActionTypes \cup SmallActionTypes
\* social_actions of assign_action_targets, interaction_actions of
\* collect_interaction_proposals
SocialActions == {"DEEP_RELATIONSHIP", "BIG_SOCIAL_EVENT", "CASUAL_DATE",
                  "LIGHT_SOCIAL"}
RomanticActions == {"DEEP_RELATIONSHIP", "CASUAL_DATE"}
\* solo_action_types of apply_solo_action_effects
SoloActionTypes == {"DEEP_WORK", "DEEP_STUDY", "MAJOR_REST", "HEALTH_PUSH",
                    "LIGHT_EXERCISE", "CASUAL_LEARNING", "HOBBY", "MINOR_REST"}

PlannedAction(actor, type, big, targets) ==
    [actor_label |-> actor, action_type |-> type, is_big |-> big,
     target_labels |-> targets]

(***************************************************************************)
(* Action planner and target selector (logic/decisions.py).                *)
(***************************************************************************)
_desire_to_big_action(desire_name) ==
    CASE desire_name = "love" -> "DEEP_RELATIONSHIP"
      [] desire_name = "career" -> "DEEP_WORK"
      [] desire_name = "social" -> "BIG_SOCIAL_EVENT"
      [] desire_name = "physical" -> "HEALTH_PUSH"
      [] desire_name = "learning" -> "DEEP_STUDY"
      [] desire_name = "rest" -> "MAJOR_REST"
      [] OTHER -> "MAJOR_REST"

_desire_to_small_action(desire_name) ==
    CASE desire_name = "love" -> "CASUAL_DATE"
      [] desire_name = "career" -> "HOBBY"
      [] desire_name = "social" -> "LIGHT_SOCIAL"
      [] desire_name = "physical" -> "LIGHT_EXERCISE"
      [] desire_name = "learning" -> "CASUAL_LEARNING"
      [] desire_name = "rest" -> "MINOR_REST"
      [] OTHER -> "MINOR_REST"

\* sorted(desires.items(), key=value, reverse=True): the domain names by
\* destiny-adjusted desire, descending
sorted_desires(agent) ==
    SortedDesc(Domains,
               [i \in 1..6 |-> apply_destiny_bias(agent, DesireOf(agent, Domains[i]))])

\* the lock taken whenever it is set, without looking it up among the desires
top_desire_of_any_lock(agent) ==
    LET locked_domain == agent.locked_action_domain
    IN  IF locked_domain # None /\ locked_domain # ""
        THEN locked_domain
        ELSE sorted_desires(agent)[1]

\* the domain of the big action: the top-ranked one unless a known domain is locked
top_desire_of(agent) ==
    LET locked_domain == agent.locked_action_domain
    IN  IF locked_domain # None /\ locked_domain # "" /\ locked_domain \in DomainSet
        THEN locked_domain
        ELSE sorted_desires(agent)[1]

\* the first n elements of s that are outside the set `used`
RECURSIVE FirstN(_, _, _)
FirstN(s, n, used) ==
    IF n <= 0 \/ s = <<>> THEN <<>>
    ELSE IF Head(s) \notin used
         THEN <<Head(s)>> \o FirstN(Tail(s), n - 1, used)
         ELSE FirstN(Tail(s), n, used)

\* the small-action loop with its limit off by one (picked > 2 instead of >= 2)
small_domains_three(remaining_desires, top_desire) ==
    FirstN(remaining_desires, 3, {top_desire})

\* the domains of the small actions: the first two of remaining_desires outside
\* used_domains, then, while fewer than two, remaining_desires from its head
small_domains(remaining_desires, top_desire) ==
    LET picked == FirstN(remaining_desires, 2, {top_desire})
    IN  picked \o FirstN(remaining_desires, 2 - Len(picked), {})

plan_agent_actions(agent) ==
    LET sorted == sorted_desires(agent)
        top_desire == top_desire_of(agent)
        remaining_desires == Tail(sorted)
        smalls == small_domains(remaining_desires, top_desire)
    IN  <<PlannedAction(agent.label, _desire_to_big_action(top_desire), TRUE,
                        NoneList)>>
        \o [k \in 1..Len(smalls) |->
              PlannedAction(agent.label, _desire_to_small_action(smalls[k]),
                            FALSE, NoneList)]

_score_target_for_action(agent, target, action_type) ==
    LET known == target.label \in DOMAIN agent.memory
        memory == IF known THEN agent.memory[target.label] ELSE AgentMemory
        base == memory.trust + memory.attraction + memory.familiarity
        trait == IF action_type \in RomanticActions
                 THEN agent.warmth * 200 + agent.love_orientation * 200
                      + target.warmth * 100
                 ELSE agent.sociability * 200 + target.sociability * 100
        common == agent.curiosity * 100 + agent.stability * 100
        penalty == IF memory.last_result = "negative" THEN 3000
                   ELSE IF memory.last_result = "neutral" THEN 1000 ELSE 0
        openness == IF memory.familiarity < 2000 THEN agent.impulse * 100 ELSE 0
    IN  base + trait + common - penalty + openness

\* the labels of the agents other than `agent`, by score for the action, descending
ranked_targets(agent, world_agents, action_type) ==
    LET others == SelectSeq(world_agents, LAMBDA a : a.label # agent.label)
    IN  SortedDesc([i \in 1..Len(others) |-> others[i].label],
                   [i \in 1..Len(others) |->
                      _score_target_for_action(agent, others[i], action_type)])

\* a target selector that forgets to leave the actor out of the candidates
targets_for_with_self(agent, world_agents, action) ==
    LET ranked == SortedDesc([i \in 1..Len(world_agents) |-> world_agents[i].label],
                    [i \in 1..Len(world_agents) |->
                       _score_target_for_action(agent, world_agents[i],
                                                action.action_type)])
    IN  IF action.action_type \notin SocialActions THEN action.target_labels
        ELSE IF action.action_type = "BIG_SOCIAL_EVENT"
             THEN Some(SubSeq(ranked, 1, Min(3, Len(ranked))))
             ELSE Some(<<ranked[1]>>)

\* the target_labels assign_action_targets leaves on one action, given that
\* other agents exist
targets_for(agent, world_agents, action) ==
    LET ranked == ranked_targets(agent, world_agents, action.action_type)
    IN  IF action.action_type \notin SocialActions THEN action.target_labels
        ELSE IF action.action_type = "BIG_SOCIAL_EVENT"
             THEN Some(SubSeq(ranked, 1, Min(3, Len(ranked))))
             ELSE IF ranked # <<>> THEN Some(<<ranked[1]>>)
                  ELSE action.target_labels

assign_action_targets(agent, world_agents, planned_actions) ==
    LET other_agents == SelectSeq(world_agents, LAMBDA a : a.label # agent.label)
    IN  IF other_agents = <<>> THEN planned_actions
        ELSE [k \in 1..Len(planned_actions) |->
                [planned_actions[k] EXCEPT
                   !.target_labels =
                       targets_for(agent, world_agents, planned_actions[k])]]

(***************************************************************************)
(* Events feed (history/events_feed.py) and the texts written to it.  A    *)
(* text is the record of the values formatted into it.                     *)
(***************************************************************************)
Event(kind, who, other, action, quality, amount) ==
    [kind |-> kind, who |-> who, other |-> other, action |-> action,
     quality |-> quality, amount |-> amount]

\* add_event that starts the month's list over: entries[month] = [description]
add_event_overwrite(entries, month, description) ==
    [m \in DOMAIN entries \cup {month} |->
        IF m = month THEN <<description>> ELSE entries[m]]

\* EventsFeed.add_event: entries.setdefault(month, []).append(description)
add_event(entries, month, description) ==
    IF month \in DOMAIN entries
    THEN [entries EXCEPT ![month] = Append(@, description)]
    ELSE [m \in DOMAIN entries \cup {month} |->
            IF m = month THEN <<description>> ELSE entries[m]]

\* EventsFeed.get_month_entries: entries.get(month, [])
get_month_entries(entries, month) ==
    IF month \in DOMAIN entries THEN entries[month] ELSE <<>>

\* dict.setdefault(key, []).append(line)
append_log(logs, key, line) ==
    IF key \in DOMAIN logs
    THEN [logs EXCEPT ![key] = Append(@, line)]
    ELSE [k \in DOMAIN logs \cup {key} |-> IF k = key THEN <<line>> ELSE logs[k]]

LogLine(name, action, quality) ==
    [with |-> name, action |-> action, quality |-> quality]

(***************************************************************************)
(* Agent memory (agents/agent.py).                                         *)
(***************************************************************************)
\* update_memory_for that makes a new AgentMemory on every call, not only on
\* the first one for a peer
update_memory_for_fresh_entry(agent, other_label, trust_delta, attraction_delta, familiarity_delta, interaction_type, result, current_time) ==
    LET old == AgentMemory
        new == [trust |-> clamp(old.trust + trust_delta, 0, 10000),
                attraction |-> clamp(old.attraction + attraction_delta, 0, 10000),
                familiarity |-> clamp(old.familiarity + familiarity_delta, 0, 10000),
                last_interaction_type |->
                    IF interaction_type # None THEN interaction_type
                    ELSE old.last_interaction_type,
                last_result |-> IF result # None THEN result ELSE old.last_result,
                last_time |-> IF current_time # NoTime THEN current_time
                              ELSE old.last_time]
    IN  [agent EXCEPT !.memory =
           [l \in DOMAIN agent.memory \cup {other_label} |->
              IF l = other_label THEN new ELSE agent.memory[l]]]

\* Agent.update_memory_for with interaction_type, result and current_time given
update_memory_for(agent, other_label, trust_delta, attraction_delta, familiarity_delta, interaction_type, result, current_time) ==
    LET old == IF other_label \in DOMAIN agent.memory
               THEN agent.memory[other_label] ELSE AgentMemory
        new == [trust |-> clamp(old.trust + trust_delta, 0, 10000),
                attraction |-> clamp(old.attraction + attraction_delta, 0, 10000),
                familiarity |-> clamp(old.familiarity + familiarity_delta, 0, 10000),
                last_interaction_type |->
                    IF interaction_type # None THEN interaction_type
                    ELSE old.last_interaction_type,
                last_result |-> IF result # None THEN result ELSE old.last_result,
                last_time |-> IF current_time # NoTime THEN current_time
                              ELSE old.last_time]
    IN  [agent EXCEPT !.memory =
           [l \in DOMAIN agent.memory \cup {other_label} |->
              IF l = other_label THEN new ELSE agent.memory[l]]]

(***************************************************************************)
(* Interaction resolver and outcome applier (logic/interactions.py).       *)
(***************************************************************************)
\* _get_agent_by_label as an index into world.agents: the first agent with the
\* label, 0 for None
_get_agent_by_label(world_agents, label) ==
    IF \E i \in 1..Len(world_agents) : world_agents[i].label = label
    THEN CHOOSE i \in 1..Len(world_agents) :
            /\ world_agents[i].label = label
            /\ \A j \in 1..(i - 1) : world_agents[j].label # label
    ELSE 0

InteractionProposal(initiator, targets, type) ==
    [initiator_label |-> initiator, target_labels |-> targets,
     action_type |-> type]

collect_interaction_proposals(actions_list) ==
    LET wanted == SelectSeq(actions_list,
                    LAMBDA a : a.action_type \in SocialActions
                               /\ Truthy(a.target_labels))
    IN  [k \in 1..Len(wanted) |->
           InteractionProposal(wanted[k].actor_label,
                               wanted[k].target_labels[1],
                               wanted[k].action_type)]

\* the acceptance probability with the penalty for the last result taken
\* before the trust term is added, not after
accept_prob_penalty_first(target, initiator, action_type, r) ==
    LET known == initiator.label \in DOMAIN target.memory
        trust == IF known THEN target.memory[initiator.label].trust ELSE 5000
        last_result == IF known THEN target.memory[initiator.label].last_result
                       ELSE None
        p0 == 5000
        p1 == (p0 * target.energy) \div 10000
        rest_factor == 10000 - target.desire_rest \div 2
        p2 == (p1 * rest_factor) \div 10000
        trauma_factor == 10000 - target.trauma_level \div 2
        p3 == (p2 * trauma_factor) \div 10000
        p4 == IF action_type \in RomanticActions
              THEN p3 + (target.desire_love * 3) \div 10
              ELSE IF action_type \in {"BIG_SOCIAL_EVENT", "LIGHT_SOCIAL"}
                   THEN p3 + (target.desire_social * 3) \div 10
                   ELSE p3
        p5 == IF last_result = "negative" THEN (p4 * 3) \div 10
              ELSE IF last_result = "neutral" THEN (p4 * 7) \div 10
              ELSE p4
        p6 == p5 + (trust * 2) \div 10
        p7 == IF action_type \in RomanticActions
              THEN p6 + target.warmth * 100 ELSE p6
        p8 == p7 + target.sociability * 100
        impulse_variation == target.impulse * 200
    IN  p8 + Uniform(r, 0 - impulse_variation, impulse_variation)

\* the acceptance probability before the clamp, with the jitter draw r
accept_prob(target, initiator, action_type, r) ==
    LET known == initiator.label \in DOMAIN target.memory
        trust == IF known THEN target.memory[initiator.label].trust ELSE 5000
        last_result == IF known THEN target.memory[initiator.label].last_result
                       ELSE None
        p0 == 5000
        p1 == (p0 * target.energy) \div 10000
        rest_factor == 10000 - target.desire_rest \div 2
        p2 == (p1 * rest_factor) \div 10000
        trauma_factor == 10000 - target.trauma_level \div 2
        p3 == (p2 * trauma_factor) \div 10000
        p4 == IF action_type \in RomanticActions
              THEN p3 + (target.desire_love * 3) \div 10
              ELSE IF action_type \in {"BIG_SOCIAL_EVENT", "LIGHT_SOCIAL"}
                   THEN p3 + (target.desire_social * 3) \div 10
                   ELSE p3
        p5 == p4 + (trust * 2) \div 10
        p6 == IF last_result = "negative" THEN (p5 * 3) \div 10
              ELSE IF last_result = "neutral" THEN (p5 * 7) \div 10
              ELSE p5
        p7 == IF action_type \in RomanticActions
              THEN p6 + target.warmth * 100 ELSE p6
        p8 == p7 + target.sociability * 100
        impulse_variation == target.impulse * 200
    IN  p8 + Uniform(r, 0 - impulse_variation, impulse_variation)

\* _should_accept_proposal: two draws, the jitter (state r) and the decision
_should_accept_proposal(target, initiator, action_type, r) ==
    Random01(NextRng(r))
        < clamp(accept_prob(target, initiator, action_type, r), 0, 10000)

\* the loop with a bare `continue` for a label that names no agent: the label
\* is recorded nowhere
RECURSIVE decide_targets_drop_stale(_, _, _, _, _, _, _)
decide_targets_drop_stale(world_agents, initiator, action_type, targets, acc, rej, r) ==
    IF targets = <<>> THEN [accepted |-> acc, rejected |-> rej, rng |-> r]
    ELSE LET t == _get_agent_by_label(world_agents, Head(targets))
         IN  IF t = 0
             THEN decide_targets_drop_stale(world_agents, initiator, action_type,
                                            Tail(targets), acc, rej, r)
             ELSE IF _should_accept_proposal(world_agents[t], initiator,
                                             action_type, r)
                  THEN decide_targets_drop_stale(world_agents, initiator,
                           action_type, Tail(targets),
                           Append(acc, Head(targets)), rej, NextRng(NextRng(r)))
                  ELSE decide_targets_drop_stale(world_agents, initiator,
                           action_type, Tail(targets), acc,
                           Append(rej, Head(targets)), NextRng(NextRng(r)))

\* the loop over proposal.target_labels: the accepted and the rejected labels
\* and the generator's state after it
RECURSIVE decide_targets(_, _, _, _, _, _, _)
decide_targets(world_agents, initiator, action_type, targets, acc, rej, r) ==
    IF targets = <<>> THEN [accepted |-> acc, rejected |-> rej, rng |-> r]
    ELSE LET t == _get_agent_by_label(world_agents, Head(targets))
         IN  IF t = 0
             THEN decide_targets(world_agents, initiator, action_type,
                                 Tail(targets), acc, Append(rej, Head(targets)), r)
             ELSE IF _should_accept_proposal(world_agents[t], initiator,
                                             action_type, r)
                  THEN decide_targets(world_agents, initiator, action_type,
                                      Tail(targets), Append(acc, Head(targets)),
                                      rej, NextRng(NextRng(r)))
                  ELSE decide_targets(world_agents, initiator, action_type,
                                      Tail(targets), acc,
                                      Append(rej, Head(targets)),
                                      NextRng(NextRng(r)))

ResolvedInteraction(proposal, acc, rej) ==
    [initiator_label |-> proposal.initiator_label,
     target_labels |-> proposal.target_labels,
     action_type |-> proposal.action_type,
     accepted_targets |-> acc, rejected_targets |-> rej]

\* one pass of the loop of evaluate_interaction_proposals: the list `resolved`
\* after the proposal, and the generator's state
evaluate_one(world_agents, proposal, resolved_so_far, r) ==
    LET i == _get_agent_by_label(world_agents, proposal.initiator_label)
        d == decide_targets(world_agents, world_agents[i], proposal.action_type,
                            proposal.target_labels, <<>>, <<>>, r)
    IN  IF i = 0 THEN [resolved |-> resolved_so_far, rng |-> r]
        ELSE [resolved |-> Append(resolved_so_far,
                                  ResolvedInteraction(proposal, d.accepted,
                                                      d.rejected)),
              rng |-> d.rng]

\* the stability bonus taken from the first agent alone
_compute_chemistry_own_stability(agent1, agent2, action_type) ==
    LET base_chemistry ==
            IF agent2.label \in DOMAIN agent1.memory
            THEN LET memory == agent1.memory[agent2.label]
                 IN  (memory.trust + memory.attraction + memory.familiarity) \div 3
            ELSE 5000
        warmth_match ==
            10000 - Abs(agent1.warmth * 1000 - agent2.warmth * 1000)
        love_match ==
            10000 - Abs(agent1.love_orientation * 1000
                        - agent2.love_orientation * 1000)
        sociability_match ==
            10000 - Abs(agent1.sociability * 1000 - agent2.sociability * 1000)
        trait_chemistry == IF action_type \in RomanticActions
                           THEN (warmth_match + love_match) \div 2
                           ELSE sociability_match
        stability_bonus == agent1.stability * 100
        chemistry == (base_chemistry * 4) \div 10 + (trait_chemistry * 4) \div 10
                     + (stability_bonus * 2) \div 10
    IN  clamp(chemistry, 0, 10000)

_compute_chemistry(agent1, agent2, action_type) ==
    LET base_chemistry ==
            IF agent2.label \in DOMAIN agent1.memory
            THEN LET memory == agent1.memory[agent2.label]
                 IN  (memory.trust + memory.attraction + memory.familiarity) \div 3
            ELSE 5000
        warmth_match == 10000 - Abs(agent1.warmth * 1000 - agent2.warmth * 1000)
        love_match == 10000 - Abs(agent1.love_orientation * 1000
                                  - agent2.love_orientation * 1000)
        sociability_match ==
            10000 - Abs(agent1.sociability * 1000 - agent2.sociability * 1000)
        trait_chemistry == IF action_type \in RomanticActions
                           THEN (warmth_match + love_match) \div 2
                           ELSE sociability_match
        stability_bonus == ((agent1.stability + agent2.stability) * 100) \div 2
        chemistry == (base_chemistry * 4) \div 10 + (trait_chemistry * 4) \div 10
                     + (stability_bonus * 2) \div 10
    IN  clamp(chemistry, 0, 10000)

\* the thresholds taken inclusive: 70 counts as positive, 30 as negative
outcome_quality_of_inclusive(chemistry) ==
    IF chemistry >= 7000 THEN "positive"
    ELSE IF chemistry <= 3000 THEN "negative"
    ELSE "neutral"

\* chemistry > 70 positive, < 30 negative, else neutral
outcome_quality_of(chemistry) ==
    IF chemistry > 7000 THEN "positive"
    ELSE IF chemistry < 3000 THEN "negative"
    ELSE "neutral"

\* the outcome of one pair with the target's memory written for romantic
\* actions only
apply_pair_initiator_remembers(st, i, t, action_type, current_time) ==
    LET A == st.agents
        initiator == A[i]
        target == A[t]
        c0 == _compute_chemistry(initiator, target, action_type)
        c1 == apply_destiny_bias(initiator, c0)
        chemistry == apply_destiny_bias(target, c1)
        initiator_luck == IF initiator.luck_enabled
                          THEN Uniform(st.rng, 0 - 500, 500) ELSE 0
        r1 == IF initiator.luck_enabled THEN NextRng(st.rng) ELSE st.rng
        target_luck == IF target.luck_enabled THEN Uniform(r1, 0 - 500, 500) ELSE 0
        r2 == IF target.luck_enabled THEN NextRng(r1) ELSE r1
        outcome_quality == outcome_quality_of(chemistry)
        romantic == action_type \in RomanticActions
        social == action_type \in {"BIG_SOCIAL_EVENT", "LIGHT_SOCIAL"}
        love_change == chemistry \div 10 + initiator_luck
        social_change == IF romantic
                         THEN chemistry \div 15 + initiator_luck \div 2
                         ELSE chemistry \div 12 + initiator_luck \div 2
        negative == outcome_quality = "negative"
        trauma_increase == (10000 - chemistry) \div 20
        love_bump == IF chemistry > 6000 THEN (chemistry - 6000) \div 20 ELSE 0
        i1 == IF romantic
              THEN [initiator EXCEPT
                      !.love = clamp(@ + love_change, 0, 10000),
                      !.social = clamp(@ + social_change, 0, 10000),
                      !.trauma_level =
                          IF negative THEN clamp(@ + trauma_increase, 0, 10000)
                          ELSE @]
              ELSE IF social
              THEN [initiator EXCEPT
                      !.social = clamp(@ + social_change, 0, 10000),
                      !.love = IF chemistry > 6000
                               THEN clamp(@ + love_bump, 0, 10000) ELSE @]
              ELSE initiator
        t1 == IF romantic
              THEN [target EXCEPT
                      !.love = clamp(@ + love_change + target_luck, 0, 10000),
                      !.social = clamp(@ + social_change + target_luck \div 2,
                                       0, 10000),
                      !.trauma_level =
                          IF negative THEN clamp(@ + trauma_increase, 0, 10000)
                          ELSE @]
              ELSE IF social
              THEN [target EXCEPT
                      !.social = clamp(@ + social_change + target_luck \div 2,
                                       0, 10000),
                      !.love = IF chemistry > 6000
                               THEN clamp(@ + love_bump, 0, 10000) ELSE @]
              ELSE target
        trust_delta == IF romantic THEN (chemistry - 5000) \div 10
                       ELSE (chemistry - 5000) \div 12
        attraction_delta == IF romantic THEN (chemistry - 5000) \div 8 ELSE 0
        familiarity_delta == IF romantic THEN 1000 ELSE 800
        i2 == IF romantic \/ social
              THEN update_memory_for(i1, target.label, trust_delta,
                                     attraction_delta, familiarity_delta,
                                     action_type, outcome_quality, current_time)
              ELSE i1
        t2 == IF romantic
              THEN update_memory_for(t1, initiator.label, trust_delta,
                                     attraction_delta, familiarity_delta,
                                     action_type, outcome_quality, current_time)
              ELSE t1
        logs1 == append_log(st.logs, initiator.label,
                            LogLine(target.name, action_type, outcome_quality))
    IN  [agents |-> [A EXCEPT ![i] = i2, ![t] = t2],
         rng |-> r2,
         events |-> add_event(st.events, current_time,
                              Event("shared", initiator.name, target.name,
                                    action_type, outcome_quality, 0)),
         logs |-> append_log(logs1, target.label,
                             LogLine(initiator.name, action_type,
                                     outcome_quality))]

\* the outcome of one pair with a romance costing the initiator 5 energy
apply_pair_tiring(st, i, t, action_type, current_time) ==
    LET A == st.agents
        initiator == A[i]
        target == A[t]
        c0 == _compute_chemistry(initiator, target, action_type)
        c1 == apply_destiny_bias(initiator, c0)
        chemistry == apply_destiny_bias(target, c1)
        initiator_luck == IF initiator.luck_enabled
                          THEN Uniform(st.rng, 0 - 500, 500) ELSE 0
        r1 == IF initiator.luck_enabled THEN NextRng(st.rng) ELSE st.rng
        target_luck == IF target.luck_enabled THEN Uniform(r1, 0 - 500, 500) ELSE 0
        r2 == IF target.luck_enabled THEN NextRng(r1) ELSE r1
        outcome_quality == outcome_quality_of(chemistry)
        romantic == action_type \in RomanticActions
        social == action_type \in {"BIG_SOCIAL_EVENT", "LIGHT_SOCIAL"}
        love_change == chemistry \div 10 + initiator_luck
        social_change == IF romantic
                         THEN chemistry \div 15 + initiator_luck \div 2
                         ELSE chemistry \div 12 + initiator_luck \div 2
        negative == outcome_quality = "negative"
        trauma_increase == (10000 - chemistry) \div 20
        love_bump == IF chemistry > 6000 THEN (chemistry - 6000) \div 20 ELSE 0
        i1 == IF romantic
              THEN [initiator EXCEPT
                      !.energy = clamp(@ - 500, 0, 10000),
                      !.love = clamp(@ + love_change, 0, 10000),
                      !.social = clamp(@ + social_change, 0, 10000),
                      !.trauma_level =
                          IF negative THEN clamp(@ + trauma_increase, 0, 10000)
                          ELSE @]
              ELSE IF social
              THEN [initiator EXCEPT
                      !.social = clamp(@ + social_change, 0, 10000),
                      !.love = IF chemistry > 6000
                               THEN clamp(@ + love_bump, 0, 10000) ELSE @]
              ELSE initiator
        t1 == IF romantic
              THEN [target EXCEPT
                      !.love = clamp(@ + love_change + target_luck, 0, 10000),
                      !.social = clamp(@ + social_change + target_luck \div 2,
                                       0, 10000),
                      !.trauma_level =
                          IF negative THEN clamp(@ + trauma_increase, 0, 10000)
                          ELSE @]
              ELSE IF social
              THEN [target EXCEPT
                      !.social = clamp(@ + social_change + target_luck \div 2,
                                       0, 10000),
                      !.love = IF chemistry > 6000
                               THEN clamp(@ + love_bump, 0, 10000) ELSE @]
              ELSE target
        trust_delta == IF romantic THEN (chemistry - 5000) \div 10
                       ELSE (chemistry - 5000) \div 12
        attraction_delta == IF romantic THEN (chemistry - 5000) \div 8 ELSE 0
        familiarity_delta == IF romantic THEN 1000 ELSE 800
        i2 == IF romantic \/ social
              THEN update_memory_for(i1, target.label, trust_delta,
                                     attraction_delta, familiarity_delta,
                                     action_type, outcome_quality, current_time)
              ELSE i1
        t2 == IF romantic \/ social
              THEN update_memory_for(t1, initiator.label, trust_delta,
                                     attraction_delta, familiarity_delta,
                                     action_type, outcome_quality, current_time)
              ELSE t1
        logs1 == append_log(st.logs, initiator.label,
                            LogLine(target.name, action_type, outcome_quality))
    IN  [agents |-> [A EXCEPT ![i] = i2, ![t] = t2],
         rng |-> r2,
         events |-> add_event(st.events, current_time,
                              Event("shared", initiator.name, target.name,
                                    action_type, outcome_quality, 0)),
         logs |-> append_log(logs1, target.label,
                             LogLine(initiator.name, action_type,
                                     outcome_quality))]

\* the body of the loop over interaction.accepted_targets for one target that
\* exists: st is [agents, rng, events, logs], i and t index initiator and target
apply_pair(st, i, t, action_type, current_time) ==
    LET A == st.agents
        initiator == A[i]
        target == A[t]
        c0 == _compute_chemistry(initiator, target, action_type)
        c1 == apply_destiny_bias(initiator, c0)
        chemistry == apply_destiny_bias(target, c1)
        initiator_luck == IF initiator.luck_enabled
                          THEN Uniform(st.rng, 0 - 500, 500) ELSE 0
        r1 == IF initiator.luck_enabled THEN NextRng(st.rng) ELSE st.rng
        target_luck == IF target.luck_enabled THEN Uniform(r1, 0 - 500, 500) ELSE 0
        r2 == IF target.luck_enabled THEN NextRng(r1) ELSE r1
        outcome_quality == outcome_quality_of(chemistry)
        romantic == action_type \in RomanticActions
        social == action_type \in {"BIG_SOCIAL_EVENT", "LIGHT_SOCIAL"}
        love_change == chemistry \div 10 + initiator_luck
        social_change == IF romantic
                         THEN chemistry \div 15 + initiator_luck \div 2
                         ELSE chemistry \div 12 + initiator_luck \div 2
        negative == outcome_quality = "negative"
        trauma_increase == (10000 - chemistry) \div 20
        love_bump == IF chemistry > 6000 THEN (chemistry - 6000) \div 20 ELSE 0
        i1 == IF romantic
              THEN [initiator EXCEPT
                      !.love = clamp(@ + love_change, 0, 10000),
                      !.social = clamp(@ + social_change, 0, 10000),
                      !.trauma_level =
                          IF negative THEN clamp(@ + trauma_increase, 0, 10000)
                          ELSE @]
              ELSE IF social
              THEN [initiator EXCEPT
                      !.social = clamp(@ + social_change, 0, 10000),
                      !.love = IF chemistry > 6000
                               THEN clamp(@ + love_bump, 0, 10000) ELSE @]
              ELSE initiator
        t1 == IF romantic
              THEN [target EXCEPT
                      !.love = clamp(@ + love_change + target_luck, 0, 10000),
                      !.social = clamp(@ + social_change + target_luck \div 2,
                                       0, 10000),
                      !.trauma_level =
                          IF negative THEN clamp(@ + trauma_increase, 0, 10000)
                          ELSE @]
              ELSE IF social
              THEN [target EXCEPT
                      !.social = clamp(@ + social_change + target_luck \div 2,
                                       0, 10000),
                      !.love = IF chemistry > 6000
                               THEN clamp(@ + love_bump, 0, 10000) ELSE @]
              ELSE target
        trust_delta == IF romantic THEN (chemistry - 5000) \div 10
                       ELSE (chemistry - 5000) \div 12
        attraction_delta == IF romantic THEN (chemistry - 5000) \div 8 ELSE 0
        familiarity_delta == IF romantic THEN 1000 ELSE 800
        i2 == IF romantic \/ social
              THEN update_memory_for(i1, target.label, trust_delta,
                                     attraction_delta, familiarity_delta,
                                     action_type, outcome_quality, current_time)
              ELSE i1
        t2 == IF romantic \/ social
              THEN update_memory_for(t1, initiator.label, trust_delta,
                                     attraction_delta, familiarity_delta,
                                     action_type, outcome_quality, current_time)
              ELSE t1
        logs1 == append_log(st.logs, initiator.label,
                            LogLine(target.name, action_type, outcome_quality))
    IN  [agents |-> [A EXCEPT ![i] = i2, ![t] = t2],
         rng |-> r2,
         events |-> add_event(st.events, current_time,
                              Event("shared", initiator.name, target.name,
                                    action_type, outcome_quality, 0)),
         logs |-> append_log(logs1, target.label,
                             LogLine(initiator.name, action_type,
                                     outcome_quality))]

\* the loop over the labels of one interaction, for an initiator that exists
RECURSIVE apply_targets(_, _, _, _, _)
apply_targets(st, i, labels, action_type, current_time) ==
    IF labels = <<>> THEN st
    ELSE LET t == _get_agent_by_label(st.agents, Head(labels))
         IN  IF t = 0
             THEN apply_targets(st, i, Tail(labels), action_type, current_time)
             ELSE apply_targets(apply_pair(st, i, t, action_type, current_time),
                                i, Tail(labels), action_type, current_time)

\* an outcome loop that walks every proposed target, not only the accepted ones
apply_one_all_targets(st, interaction, current_time) ==
    LET i == _get_agent_by_label(st.agents, interaction.initiator_label)
    IN  IF interaction.target_labels = <<>> \/ i = 0 THEN st
        ELSE apply_targets(st, i, interaction.target_labels,
                           interaction.action_type, current_time)

\* one pass of the loop of apply_interaction_outcomes over `resolved`
apply_one(st, interaction, current_time) ==
    LET i == _get_agent_by_label(st.agents, interaction.initiator_label)
    IN  IF interaction.accepted_targets = <<>> \/ i = 0 THEN st
        ELSE apply_targets(st, i, interaction.accepted_targets,
                           interaction.action_type, current_time)

(***************************************************************************)
(* Solo action effects (logic/actions.py).                                 *)
(***************************************************************************)
\* big solo actions with a major rest that also eases trauma by 5
_apply_big_solo_action_healing(agent, action_type) ==
    CASE action_type = "DEEP_WORK" ->
            [agent EXCEPT !.career = clamp(@ + 1500, 0, 10000),
                          !.energy = clamp(@ - 1200, 0, 10000)]
      [] action_type = "DEEP_STUDY" ->
            [agent EXCEPT !.intelligence = clamp(@ + 1200, 0, 10000),
                          !.career = clamp(@ + 500, 0, 10000),
                          !.energy = clamp(@ - 1000, 0, 10000)]
      [] action_type = "MAJOR_REST" ->
            [agent EXCEPT !.energy = clamp(@ + 2000, 0, 10000),
                          !.physical = clamp(@ + 300, 0, 10000),
                          !.trauma_level = clamp(@ - 500, 0, 10000)]
      [] action_type = "HEALTH_PUSH" ->
            [agent EXCEPT !.physical = clamp(@ + 1200, 0, 10000),
                          !.energy = clamp(@ - 1000, 0, 10000)]
      [] OTHER -> agent

_apply_big_solo_action(agent, action_type) ==
    CASE action_type = "DEEP_WORK" ->
            [agent EXCEPT !.career = clamp(@ + 1500, 0, 10000),
                          !.energy = clamp(@ - 1200, 0, 10000)]
      [] action_type = "DEEP_STUDY" ->
            [agent EXCEPT !.intelligence = clamp(@ + 1200, 0, 10000),
                          !.career = clamp(@ + 500, 0, 10000),
                          !.energy = clamp(@ - 1000, 0, 10000)]
      [] action_type = "MAJOR_REST" ->
            [agent EXCEPT !.energy = clamp(@ + 2000, 0, 10000),
                          !.physical = clamp(@ + 300, 0, 10000)]
      [] action_type = "HEALTH_PUSH" ->
            [agent EXCEPT !.physical = clamp(@ + 1200, 0, 10000),
                          !.energy = clamp(@ - 1000, 0, 10000)]
      [] OTHER -> agent

_apply_small_solo_action(agent, action_type) ==
    CASE action_type = "LIGHT_EXERCISE" ->
            [agent EXCEPT !.physical = clamp(@ + 500, 0, 10000),
                          !.energy = clamp(@ - 400, 0, 10000)]
      [] action_type = "CASUAL_LEARNING" ->
            [agent EXCEPT !.intelligence = clamp(@ + 500, 0, 10000),
                          !.energy = clamp(@ - 300, 0, 10000)]
      [] action_type = "HOBBY" ->
            [agent EXCEPT !.social = clamp(@ + 400, 0, 10000),
                          !.career = clamp(@ + 200, 0, 10000),
                          !.energy = clamp(@ - 200, 0, 10000)]
      [] action_type = "MINOR_REST" ->
            [agent EXCEPT !.energy = clamp(@ + 800, 0, 10000),
                          !.physical = clamp(@ + 100, 0, 10000)]
      [] OTHER -> agent

RECURSIVE apply_solo_action_effects(_, _)
apply_solo_action_effects(agent, actions_list) ==
    IF actions_list = <<>> THEN agent
    ELSE LET action == Head(actions_list)
             next == IF Truthy(action.target_labels) THEN agent
                     ELSE IF action.action_type \notin SoloActionTypes THEN agent
                     ELSE IF action.is_big
                          THEN _apply_big_solo_action(agent, action.action_type)
                          ELSE _apply_small_solo_action(agent, action.action_type)
         IN  apply_solo_action_effects(next, Tail(actions_list))

(***************************************************************************)
(* Diary (logic/diary.py).  An entry is the record of what its text says.  *)
(***************************************************************************)
TRACKED_FIELDS == <<"love", "career", "social", "intelligence", "physical", "energy">>

StateField(a, f) ==
    CASE f = "love" -> a.love
      [] f = "career" -> a.career
      [] f = "social" -> a.social
      [] f = "intelligence" -> a.intelligence
      [] f = "physical" -> a.physical
      [] f = "energy" -> a.energy

\* _summarize_state_changes: the fields that moved by 3 or more, each with its
\* direction and its rounded amount
_summarize_state_changes(agent) ==
    LET prev(f) == StateField(agent.last_state_snapshot, f)
        delta(f) == StateField(agent, f) - prev(f)
        moved == SelectSeq(TRACKED_FIELDS,
                           LAMBDA f : prev(f) # NoTime /\ Abs(delta(f)) >= 300)
    IN  [k \in 1..Len(moved) |->
           [field |-> moved[k],
            direction |-> IF delta(moved[k]) > 0 THEN "rose" ELSE "fell",
            amount |-> RoundHalfEven(Abs(delta(moved[k])))]]

\* the entry generate_monthly_diary returns
diary_entry(agent, month, interactions, events) ==
    LET destiny_bias == get_destiny_bias(agent)
    IN  [month |-> month,
         changes |-> _summarize_state_changes(agent),
         key_moment |-> IF interactions # <<>> THEN <<interactions[1]>> ELSE <<>>,
         more_ripples |-> Len(interactions) > 1,
         trauma |-> IF agent.trauma_level > 6000 THEN "heavy"
                    ELSE IF agent.trauma_level > 3000 THEN "ache" ELSE "",
         whisper |-> IF events # <<>> THEN <<events[Len(events)]>> ELSE <<>>,
         destiny |-> IF destiny_bias > 8000 THEN "loud"
                     ELSE IF destiny_bias < 2000 THEN "quiet" ELSE ""]

\* generate_monthly_diary and the assignment agent.diary_log[month] = entry
generate_monthly_diary(agent, month, interactions, events) ==
    LET e == diary_entry(agent, month, interactions, events)
    IN  [agent EXCEPT
           !.last_state_snapshot = capture_state_snapshot(agent),
           !.diary_log = [m \in DOMAIN agent.diary_log \cup {month} |->
                            IF m = month THEN e ELSE agent.diary_log[m]]]

(***************************************************************************)
(* World (core/simulator.py).                                              *)
(***************************************************************************)
AgentOverride(trauma, boost_domain, boost_value, bless, lock_choice, lock_domain) ==
    [trauma_increase |-> trauma, desire_boost_domain |-> boost_domain,
     desire_boost_value |-> boost_value, bless |-> bless,
     lock_choice |-> lock_choice, lock_domain |-> lock_domain]

\* advance_month with the horizon test written > instead of >=
advance_month_late(month, total, themes) ==
    IF month > total THEN [month |-> month, theme |-> None]
    ELSE [month |-> month + 1,
          theme |-> IF themes # <<>>
                    THEN themes[(((month + 1) - 1) % Len(themes)) + 1]
                    ELSE None]

\* World.advance_month: the new current_month and the value returned
advance_month(month, total, themes) ==
    IF month >= total THEN [month |-> month, theme |-> None]
    ELSE [month |-> month + 1,
          theme |-> IF themes # <<>>
                    THEN themes[(((month + 1) - 1) % Len(themes)) + 1]
                    ELSE None]

\* the first loop of run_month with setattr not guarded by hasattr, a boost of
\* an unknown domain landing on the rest desire
apply_overrides_and_desires_unguarded(agent, overrides, theme, month_index, entries, boosts) ==
    LET has == agent.label \in DOMAIN overrides
        override == overrides[agent.label]
        a1 == [agent EXCEPT
                 !.destiny_blessing = IF has /\ override.bless THEN 2000 ELSE 0,
                 !.locked_action_domain =
                     IF has /\ override.lock_choice THEN override.lock_domain
                     ELSE None]
        hurt == has /\ override.trauma_increase # 0
        a2 == IF hurt
              THEN [a1 EXCEPT !.trauma_level =
                      clamp(@ + override.trauma_increase, 0, 10000)]
              ELSE a1
        entries1 == IF hurt
                    THEN add_event(entries, month_index,
                                   Event("trauma", agent.name, None, None, None,
                                         RoundHalfEven(override.trauma_increase)))
                    ELSE entries
        boosted == has /\ override.desire_boost_domain \notin {None, ""}
        boosts1 == IF boosted
                   THEN [l \in DOMAIN boosts \cup {agent.label} |->
                           IF l = agent.label
                           THEN <<override.desire_boost_domain,
                                  override.desire_boost_value>>
                           ELSE boosts[l]]
                   ELSE boosts
        a3 == update_agent_desires(a2, theme)
        domain == IF agent.label \in DOMAIN boosts1
                     /\ boosts1[agent.label][1] \in DomainSet
                  THEN boosts1[agent.label][1] ELSE "rest"
        a4 == IF agent.label \in DOMAIN boosts1
              THEN SetDesire(a3, domain,
                             clamp(DesireOf(a3, domain)
                                   + boosts1[agent.label][2], 0, 10000))
              ELSE a3
    IN  [agent |-> a4, entries |-> entries1, boosts |-> boosts1]

\* the first loop of run_month with the blessing set when the override asks
\* for it and otherwise left as it was
apply_overrides_and_desires_sticky(agent, overrides, theme, month_index, entries, boosts) ==
    LET has == agent.label \in DOMAIN overrides
        override == overrides[agent.label]
        a1 == [agent EXCEPT
                 !.destiny_blessing = IF has /\ override.bless THEN 2000 ELSE @,
                 !.locked_action_domain =
                     IF has /\ override.lock_choice THEN override.lock_domain
                     ELSE None]
        hurt == has /\ override.trauma_increase # 0
        a2 == IF hurt
              THEN [a1 EXCEPT !.trauma_level =
                      clamp(@ + override.trauma_increase, 0, 10000)]
              ELSE a1
        entries1 == IF hurt
                    THEN add_event(entries, month_index,
                                   Event("trauma", agent.name, None, None, None,
                                         RoundHalfEven(override.trauma_increase)))
                    ELSE entries
        boosted == has /\ override.desire_boost_domain \notin {None, ""}
        boosts1 == IF boosted
                   THEN [l \in DOMAIN boosts \cup {agent.label} |->
                           IF l = agent.label
                           THEN <<override.desire_boost_domain,
                                  override.desire_boost_value>>
                           ELSE boosts[l]]
                   ELSE boosts
        a3 == update_agent_desires(a2, theme)
        a4 == IF agent.label \in DOMAIN boosts1
                 /\ boosts1[agent.label][1] \in DomainSet
              THEN SetDesire(a3, boosts1[agent.label][1],
                             clamp(DesireOf(a3, boosts1[agent.label][1])
                                   + boosts1[agent.label][2], 0, 10000))
              ELSE a3
    IN  [agent |-> a4, entries |-> entries1, boosts |-> boosts1]

\* the body of the first loop of run_month for one agent: the agent, the events
\* feed and pending_boosts after it
apply_overrides_and_desires(agent, overrides, theme, month_index, entries, boosts) ==
    LET has == agent.label \in DOMAIN overrides
        override == overrides[agent.label]
        a1 == [agent EXCEPT
                 !.destiny_blessing = IF has /\ override.bless THEN 2000 ELSE 0,
                 !.locked_action_domain =
                     IF has /\ override.lock_choice THEN override.lock_domain
                     ELSE None]
        hurt == has /\ override.trauma_increase # 0
        a2 == IF hurt
              THEN [a1 EXCEPT !.trauma_level =
                      clamp(@ + override.trauma_increase, 0, 10000)]
              ELSE a1
        entries1 == IF hurt
                    THEN add_event(entries, month_index,
                                   Event("trauma", agent.name, None, None, None,
                                         RoundHalfEven(override.trauma_increase)))
                    ELSE entries
        boosted == has /\ override.desire_boost_domain \notin {None, ""}
        boosts1 == IF boosted
                   THEN [l \in DOMAIN boosts \cup {agent.label} |->
                           IF l = agent.label
                           THEN <<override.desire_boost_domain,
                                  override.desire_boost_value>>
                           ELSE boosts[l]]
                   ELSE boosts
        a3 == update_agent_desires(a2, theme)
        a4 == IF agent.label \in DOMAIN boosts1
                 /\ boosts1[agent.label][1] \in DomainSet
              THEN SetDesire(a3, boosts1[agent.label][1],
                             clamp(DesireOf(a3, boosts1[agent.label][1])
                                   + boosts1[agent.label][2], 0, 10000))
              ELSE a3
    IN  [agent |-> a4, entries |-> entries1, boosts |-> boosts1]

\* record_world_state: the snapshots appended, one per agent
AgentSnapshot(month, a) ==
    [month |-> month, label |-> a.label, name |-> a.name,
     physical |-> a.physical, love |-> a.love, career |-> a.career,
     social |-> a.social, intelligence |-> a.intelligence,
     energy |-> a.energy, trauma_level |-> a.trauma_level]

\* record_world_state with the append outside the loop: only the last agent of
\* the month is recorded
record_world_state_last_only(world_agents, month, snapshots) ==
    IF world_agents = <<>> THEN snapshots
    ELSE Append(snapshots, AgentSnapshot(month, world_agents[Len(world_agents)]))

record_world_state(world_agents, month, snapshots) ==
    snapshots \o [i \in 1..Len(world_agents) |-> AgentSnapshot(month, world_agents[i])]

\* no direct call made yet
NoCall == [op |-> "none"]

NoPhase == [desires |-> 0, plan |-> 0, target |-> 0, evaluate |-> 0,
            apply |-> 0, solo |-> 0, diary |-> 0]

(***************************************************************************)
(* run_month, one step per loop iteration.                                 *)
(***************************************************************************)
N == Len(agents)
month_index == current_month

\* the phase after the desire loop has handled agent i of n: a loop fused with
\* the planning loop, which plans for an agent as soon as its desires are set
after_desires_fused(i, n) == [pc |-> "plan", idx |-> i]

\* the phase after the desire loop has handled agent i of n
after_desires(i, n) ==
    IF i < n THEN [pc |-> "desires", idx |-> i + 1] ELSE [pc |-> "plan", idx |-> 1]

\* the environment calls run_month(world)
CallRunMonth ==
    /\ pc = "idle" /\ fs_pc \in {"none", "done"} /\ replay.stage = "off"
    /\ pc' = "advance" /\ entry' = "run_month" /\ fs_pc' = "none"
    /\ UNCHANGED <<worldVars, frameVars, DESTINY_STRENGTH, rng, idx, history, fs_start,
                   phase_done, direct_calls, last_call, replay>>

\* lines 128-136: advance_month, the early return, the locals
AdvanceStep ==
    /\ pc = "advance"
    /\ LET r == advance_month(current_month, total_months, global_themes)
       IN  /\ current_month' = r.month
           /\ global_theme' = r.theme
           /\ IF r.theme = None
              THEN /\ pc' = "idle" /\ entry' = "none"
                   /\ UNCHANGED <<idx, agent_interaction_log, pending_boosts,
                                  actions, all_actions, agent_actions_map,
                                  proposals, resolved, phase_done>>
              ELSE /\ pc' = IF N = 0 THEN "plan" ELSE "desires"
                   /\ idx' = 1
                   /\ agent_interaction_log' = EmptyMap
                   /\ pending_boosts' = EmptyMap
                   /\ actions' = <<>>
                   /\ all_actions' = <<>>
                   /\ agent_actions_map' = EmptyMap
                   /\ proposals' = <<>>
                   /\ resolved' = <<>>
                   /\ phase_done' = NoPhase
                   /\ UNCHANGED entry
    /\ UNCHANGED <<agents, total_months, global_themes, destiny_strength,
                   agent_overrides, events_feed, DESTINY_STRENGTH, rng, fs_pc,
                   history, fs_start, direct_calls, last_call, replay>>

\* lines 137-159, one agent
DesireStep ==
    /\ pc = "desires" /\ idx <= N
    /\ LET r == apply_overrides_and_desires(agents[idx], agent_overrides,
                    global_theme, month_index, events_feed, pending_boosts)
           nxt == after_desires(idx, N)
       IN  /\ agents' = [agents EXCEPT ![idx] = r.agent]
           /\ events_feed' = r.entries
           /\ pending_boosts' = r.boosts
           /\ pc' = nxt.pc /\ idx' = nxt.idx
    /\ phase_done' = [phase_done EXCEPT !.desires = @ + 1]
    /\ UNCHANGED <<current_month, total_months, global_themes, destiny_strength,
                   agent_overrides, DESTINY_STRENGTH, rng, entry, global_theme,
                   agent_interaction_log, actions, all_actions,
                   agent_actions_map, proposals, resolved, fs_pc, history, fs_start,
                   direct_calls, last_call, replay>>

\* line 166, one agent
PlanStep ==
    /\ pc = "plan" /\ idx <= N
    /\ actions' = plan_agent_actions(agents[idx])
    /\ pc' = "target"
    /\ phase_done' = [phase_done EXCEPT !.plan = @ + 1]
    /\ UNCHANGED <<worldVars, DESTINY_STRENGTH, rng, idx, entry, global_theme,
                   agent_interaction_log, pending_boosts, all_actions,
                   agent_actions_map, proposals, resolved, fs_pc, history, fs_start,
                   direct_calls, last_call, replay>>

\* lines 167-169, one agent
TargetStep ==
    /\ pc = "target"
    /\ LET assigned == assign_action_targets(agents[idx], agents, actions)
       IN  /\ actions' = assigned
           /\ all_actions' = all_actions \o assigned
           /\ agent_actions_map' =
                 [l \in DOMAIN agent_actions_map \cup {agents[idx].label} |->
                    IF l = agents[idx].label THEN assigned
                    ELSE agent_actions_map[l]]
    /\ pc' = "plan"
    /\ idx' = idx + 1
    /\ phase_done' = [phase_done EXCEPT !.target = @ + 1]
    /\ UNCHANGED <<worldVars, DESTINY_STRENGTH, rng, entry, global_theme,
                   agent_interaction_log, pending_boosts, proposals, resolved,
                   fs_pc, history, fs_start, direct_calls, last_call, replay>>

\* line 172, and the call of evaluate_interaction_proposals
CollectStep ==
    /\ pc = "plan" /\ idx > N
    /\ proposals' = collect_interaction_proposals(all_actions)
    /\ resolved' = <<>>
    /\ pc' = "evaluate" /\ idx' = 1
    /\ UNCHANGED <<worldVars, DESTINY_STRENGTH, rng, entry, global_theme,
                   agent_interaction_log, pending_boosts, actions, all_actions,
                   agent_actions_map, fs_pc, history, fs_start, phase_done, direct_calls, last_call,
                   replay>>

\* evaluate_interaction_proposals, one proposal
EvaluateStep ==
    /\ pc = "evaluate" /\ idx <= Len(proposals)
    /\ LET r == evaluate_one(agents, proposals[idx], resolved, rng)
       IN  /\ resolved' = r.resolved
           /\ rng' = r.rng
    /\ idx' = idx + 1
    /\ phase_done' = [phase_done EXCEPT !.evaluate = @ + 1]
    /\ UNCHANGED <<worldVars, DESTINY_STRENGTH, pc, entry, global_theme,
                   agent_interaction_log, pending_boosts, actions, all_actions,
                   agent_actions_map, proposals, fs_pc, history, fs_start, direct_calls, last_call,
                   replay>>

\* the return of evaluate_interaction_proposals, the call of
\* apply_interaction_outcomes
EvaluateDone ==
    /\ pc = "evaluate" /\ idx > Len(proposals)
    /\ pc' = "apply" /\ idx' = 1
    /\ UNCHANGED <<worldVars, frameVars, DESTINY_STRENGTH, rng, entry, fs_pc,
                   history, fs_start, phase_done, direct_calls, last_call, replay>>

\* apply_interaction_outcomes, one resolved interaction
ApplyStep ==
    /\ pc = "apply" /\ idx <= Len(resolved)
    /\ LET st == apply_one([agents |-> agents, rng |-> rng,
                            events |-> events_feed,
                            logs |-> agent_interaction_log],
                           resolved[idx], current_month)
       IN  /\ agents' = st.agents
           /\ rng' = st.rng
           /\ events_feed' = st.events
           /\ agent_interaction_log' = st.logs
    /\ idx' = idx + 1
    /\ phase_done' = [phase_done EXCEPT !.apply = @ + 1]
    /\ UNCHANGED <<current_month, total_months, global_themes, destiny_strength,
                   agent_overrides, DESTINY_STRENGTH, pc, entry, global_theme,
                   pending_boosts, actions, all_actions, agent_actions_map,
                   proposals, resolved, fs_pc, history, fs_start, direct_calls, last_call, replay>>

\* the return of apply_interaction_outcomes: to run_month, or to the caller
ApplyDone ==
    /\ pc = "apply" /\ idx > Len(resolved)
    /\ IF entry = "direct"
       THEN pc' = "idle" /\ entry' = "none" /\ UNCHANGED idx
       ELSE pc' = "solo" /\ idx' = 1 /\ UNCHANGED entry
    /\ UNCHANGED <<worldVars, frameVars, DESTINY_STRENGTH, rng, fs_pc, history, fs_start,
                   phase_done, direct_calls, last_call, replay>>

\* lines 177-185, one agent
SoloStep ==
    /\ pc = "solo" /\ idx <= N
    /\ LET agent == agents[idx]
           agent_actions == IF agent.label \in DOMAIN agent_actions_map
                            THEN agent_actions_map[agent.label] ELSE <<>>
           after == apply_solo_action_effects(agent, agent_actions)
           flare == Random01(rng) < get_destiny_bias(after) \div 4
       IN  /\ agents' = [agents EXCEPT ![idx] = after]
           /\ events_feed' =
                 IF flare
                 THEN add_event(events_feed, month_index,
                                Event("flare", agent.name, None, None, None, 0))
                 ELSE events_feed
    /\ rng' = NextRng(rng)
    /\ idx' = idx + 1
    /\ phase_done' = [phase_done EXCEPT !.solo = @ + 1]
    /\ UNCHANGED <<current_month, total_months, global_themes, destiny_strength,
                   agent_overrides, DESTINY_STRENGTH, pc, entry, frameVars,
                   fs_pc, history, fs_start, direct_calls, last_call, replay>>

SoloDone ==
    /\ pc = "solo" /\ idx > N
    /\ pc' = "diary" /\ idx' = 1
    /\ UNCHANGED <<worldVars, frameVars, DESTINY_STRENGTH, rng, entry, fs_pc,
                   history, fs_start, phase_done, direct_calls, last_call, replay>>

\* lines 188-195, one agent
DiaryStep ==
    /\ pc = "diary" /\ idx <= N
    /\ LET agent == agents[idx]
           lines == IF agent.label \in DOMAIN agent_interaction_log
                    THEN agent_interaction_log[agent.label] ELSE <<>>
       IN  agents' = [agents EXCEPT ![idx] =
                         generate_monthly_diary(agent, month_index, lines,
                             get_month_entries(events_feed, month_index))]
    /\ idx' = idx + 1
    /\ phase_done' = [phase_done EXCEPT !.diary = @ + 1]
    /\ UNCHANGED <<current_month, total_months, global_themes, destiny_strength,
                   agent_overrides, events_feed, DESTINY_STRENGTH, rng, pc,
                   entry, frameVars, fs_pc, history, fs_start, direct_calls, last_call, replay>>

\* the return of run_month
DiaryDone ==
    /\ pc = "diary" /\ idx > N
    /\ pc' = "idle" /\ entry' = "none"
    /\ UNCHANGED <<worldVars, frameVars, DESTINY_STRENGTH, rng, idx, fs_pc,
                   history, fs_start, phase_done, direct_calls, last_call, replay>>

MonthSteps ==
    \/ AdvanceStep \/ DesireStep \/ PlanStep \/ TargetStep \/ CollectStep
    \/ EvaluateStep \/ EvaluateDone \/ ApplyStep \/ ApplyDone
    \/ SoloStep \/ SoloDone \/ DiaryStep \/ DiaryDone

(***************************************************************************)
(* run_full_simulation.                                                    *)
(***************************************************************************)
\* lines 219-226: a new history, the global set from the World, a new feed,
\* the snapshot of month 0
CallRunFullSimulation ==
    /\ pc = "idle" /\ fs_pc \in {"none", "done"} /\ replay.stage = "off"
    /\ DESTINY_STRENGTH' = set_destiny_strength(destiny_strength)
    /\ events_feed' = EmptyMap
    /\ history' = record_world_state(agents, current_month, <<>>)
    /\ fs_start' = current_month
    /\ fs_pc' = "test"
    /\ UNCHANGED <<agents, current_month, total_months, global_themes,
                   destiny_strength, agent_overrides, rng, pc, idx, entry,
                   frameVars, phase_done, direct_calls, last_call, replay>>

\* line 229: the loop test; line 230: the call of run_month; line 233: the return
FullSimTest ==
    /\ fs_pc = "test" /\ pc = "idle"
    /\ IF current_month < total_months
       THEN fs_pc' = "running" /\ pc' = "advance" /\ entry' = "run_month"
       ELSE fs_pc' = "done" /\ UNCHANGED <<pc, entry>>
    /\ UNCHANGED <<worldVars, frameVars, DESTINY_STRENGTH, rng, idx, history, fs_start,
                   phase_done, direct_calls, last_call, replay>>

\* line 231: record_world_state after run_month returned
FullSimRecord ==
    /\ fs_pc = "running" /\ pc = "idle"
    /\ history' = record_world_state(agents, current_month, history)
    /\ fs_pc' = "test"
    /\ UNCHANGED fs_start
    /\ UNCHANGED <<worldVars, frameVars, DESTINY_STRENGTH, rng, pc, idx, entry,
                   phase_done, direct_calls, last_call, replay>>

FullSimSteps == CallRunFullSimulation \/ FullSimTest \/ FullSimRecord

(***************************************************************************)
(* Other calls the environment makes.                                      *)
(***************************************************************************)
\* World.initialize_default_world
InitializeDefaultWorld ==
    /\ pc = "idle" /\ fs_pc \in {"none", "done"}
    /\ agents' = [i \in 1..Len(get_default_archetypes) |->
                    from_archetype(get_default_archetypes[i])]
    /\ current_month' = 0
    /\ total_months' = 12
    /\ events_feed' = EmptyMap
    /\ agent_overrides' = EmptyMap
    /\ global_themes' = <<"ROMANCE", "CAREER", "CHAOS", "SELF_HELP", "SCIENCE">>
    /\ fs_pc' = "none"
    /\ UNCHANGED <<destiny_strength, DESTINY_STRENGTH, rng, pc, idx, entry,
                   frameVars, history, fs_start, phase_done, direct_calls, last_call, replay>>

\* a label that names no agent of any world of the model
Stale == "nobody"

\* proposal lists handed to evaluate_interaction_proposals directly: shaped as
\* collect_interaction_proposals builds them (distinct targets, none the
\* initiator), but with labels that may name no agent
DirectProposalLists(world_agents) ==
    LET L(i) == world_agents[i].label
    IN  IF Len(world_agents) < 3 THEN {}
        ELSE { << InteractionProposal(L(1), <<L(2), Stale>>, "BIG_SOCIAL_EVENT") >>,
               << InteractionProposal(Stale, <<L(1)>>, "CASUAL_DATE"),
                  InteractionProposal(L(2), <<L(1), Stale, L(3)>>,
                                      "BIG_SOCIAL_EVENT") >>,
               << InteractionProposal(L(3), <<Stale>>, "LIGHT_SOCIAL"),
                  InteractionProposal(L(1), <<Stale, L(3)>>, "DEEP_RELATIONSHIP") >> }

\* the environment calls evaluate_interaction_proposals(world, ps) and hands
\* the result to apply_interaction_outcomes(world, resolved, feed, logs)
CallEvaluate ==
    /\ pc = "idle" /\ fs_pc \in {"none", "done"} /\ replay.stage = "off"
    /\ direct_calls < MaxDirectCalls
    /\ \E ps \in DirectProposalLists(agents) : proposals' = ps
    /\ resolved' = <<>>
    /\ agent_interaction_log' = EmptyMap
    /\ pc' = "evaluate" /\ idx' = 1 /\ entry' = "direct" /\ fs_pc' = "none"
    /\ direct_calls' = direct_calls + 1
    /\ phase_done' = NoPhase
    /\ UNCHANGED last_call
    /\ UNCHANGED <<worldVars, DESTINY_STRENGTH, rng, global_theme,
                   pending_boosts, actions, all_actions, agent_actions_map,
                   history, fs_start, replay>>

(***************************************************************************)
(* Direct calls of Agent.update_memory_for and update_agent_desires.       *)
(***************************************************************************)
\* the keyword arguments of update_memory_for a caller passes: the three
\* deltas, interaction_type, result, current_time (None when left out)
MemoryArgs ==
    { <<0, 0, 0, None, None, NoTime>>,
      <<25000, 0 - 15000, 800, "LIGHT_SOCIAL", "neutral", 1>>,
      <<0 - 300, 500, 1000, "CASUAL_DATE", "positive", 2>>,
      <<0 - 20000, 700, 0 - 50, None, "negative", NoTime>> }

\* the labels a caller passes as other_label
PeerLabels == {"mira", Stale}

\* every theme the table of update_agent_desires names, and two it does not
AllThemes == {"ROMANCE", "CAREER", "CAREER_HUSTLE", "CHAOS", "SELF_HELP",
              "SCIENCE", "CURIOSITY", "MYSTERY", "romance"}

\* the environment calls agents[i].update_memory_for(peer, ...)
CallUpdateMemory ==
    /\ pc = "idle" /\ direct_calls < MaxCalls
    /\ \E i \in 1..N, peer \in PeerLabels, a \in MemoryArgs :
          /\ agents' = [agents EXCEPT ![i] =
                update_memory_for(agents[i], peer, a[1], a[2], a[3], a[4], a[5], a[6])]
          /\ last_call' = [op |-> "update_memory_for", index |-> i,
                           before |-> agents[i], peer |-> peer, args |-> a]
    /\ direct_calls' = direct_calls + 1
    /\ UNCHANGED <<current_month, total_months, global_themes, destiny_strength,
                   agent_overrides, events_feed, DESTINY_STRENGTH, rng, pc, idx,
                   entry, frameVars, fs_pc, history, fs_start, phase_done, replay>>

\* the environment calls update_agent_desires(agents[i], theme)
CallUpdateDesires ==
    /\ pc = "idle" /\ direct_calls < MaxCalls
    /\ \E i \in 1..N, theme \in AllThemes :
          /\ agents' = [agents EXCEPT ![i] = update_agent_desires(agents[i], theme)]
          /\ last_call' = [op |-> "update_agent_desires", index |-> i,
                           before |-> agents[i], theme |-> theme]
    /\ direct_calls' = direct_calls + 1
    /\ UNCHANGED <<current_month, total_months, global_themes, destiny_strength,
                   agent_overrides, events_feed, DESTINY_STRENGTH, rng, pc, idx,
                   entry, frameVars, fs_pc, history, fs_start, phase_done, replay>>

\* the environment calls set_destiny_strength(value)
StrengthArgs == {0, 5000, 10000, 15000}

CallSetDestinyStrength ==
    /\ pc = "idle" /\ direct_calls < MaxCalls
    /\ \E value \in StrengthArgs :
          /\ DESTINY_STRENGTH' = set_destiny_strength(value)
          /\ last_call' = [op |-> "set_destiny_strength", value |-> value]
    /\ direct_calls' = direct_calls + 1
    /\ UNCHANGED <<worldVars, rng, pc, idx, entry, frameVars, fs_pc, history,
                   fs_start, phase_done, replay>>

\* the environment calls plan_agent_actions(agents[i])
CallPlanActions ==
    /\ pc = "idle" /\ direct_calls < MaxCalls
    /\ \E i \in 1..N :
          /\ actions' = plan_agent_actions(agents[i])
          /\ last_call' = [op |-> "plan_agent_actions", index |-> i,
                           before |-> agents[i]]
    /\ direct_calls' = direct_calls + 1
    /\ UNCHANGED <<worldVars, DESTINY_STRENGTH, rng, pc, idx, entry, global_theme,
                   agent_interaction_log, pending_boosts, all_actions,
                   agent_actions_map, proposals, resolved, fs_pc, history,
                   fs_start, phase_done, replay>>

\* override maps the UI leaves in world.agent_overrides between months
LastingOverrideMaps(pop) ==
    LET first == pop[1].label
        last == pop[Len(pop)].label
    IN  { EmptyMap,
          [l \in {first} |-> AgentOverride(1500, None, 0, TRUE, FALSE, None)],
          [l \in {first, last} |->
             IF l = last
             THEN AgentOverride(4000, "love", 1000, FALSE, TRUE, "rest")
             ELSE AgentOverride(0, None, 0, TRUE, FALSE, None)] }

\* between two months the environment assigns world.agent_overrides
SetOverrides ==
    /\ pc = "idle" /\ direct_calls < MaxDirectCalls
    /\ current_month >= 1
    /\ \E o \in LastingOverrideMaps(agents) :
          /\ o # agent_overrides
          /\ agent_overrides' = o
    /\ direct_calls' = direct_calls + 1
    /\ UNCHANGED <<agents, current_month, total_months, global_themes,
                   destiny_strength, events_feed, DESTINY_STRENGTH, rng, pc, idx,
                   entry, frameVars, fs_pc, history, fs_start, phase_done,
                   last_call, replay>>

(***************************************************************************)
(* Replaying a month: run_month on a World, then on a second World with    *)
(* the same field values and the generator seeded the same.                *)
(***************************************************************************)
\* the fields of a World, and of its agents, as one value
WorldValue ==
    [agents |-> agents, current_month |-> current_month,
     total_months |-> total_months, global_themes |-> global_themes,
     destiny_strength |-> destiny_strength,
     agent_overrides |-> agent_overrides, events_feed |-> events_feed]

ReplayOff == [stage |-> "off"]

\* the environment calls run_month on the first, then on the second World
ReplayCall ==
    /\ pc = "idle" /\ replay.stage \in {"first_ready", "second_ready"}
    /\ replay' = [replay EXCEPT !.stage = IF @ = "first_ready"
                                          THEN "first_running"
                                          ELSE "second_running"]
    /\ pc' = "advance" /\ entry' = "run_month"
    /\ UNCHANGED <<worldVars, frameVars, DESTINY_STRENGTH, rng, idx, fs_pc,
                   history, fs_start, phase_done, direct_calls, last_call>>

\* the first run returned: keep its result, and turn to the second World, whose
\* fields equal those the first World started with; random.seed as before
ReplaySwitch ==
    /\ pc = "idle" /\ replay.stage = "first_running"
    /\ replay' = [replay EXCEPT !.stage = "second_ready", !.first = WorldValue]
    /\ agents' = replay.start.agents
    /\ current_month' = replay.start.current_month
    /\ total_months' = replay.start.total_months
    /\ global_themes' = replay.start.global_themes
    /\ destiny_strength' = replay.start.destiny_strength
    /\ agent_overrides' = replay.start.agent_overrides
    /\ events_feed' = replay.start.events_feed
    /\ rng' = replay.seed
    /\ UNCHANGED <<DESTINY_STRENGTH, pc, idx, entry, frameVars, fs_pc, history, fs_start,
                   phase_done, direct_calls, last_call>>

\* between the two runs the environment calls set_destiny_strength(value)
ReplaySetDestiny ==
    /\ pc = "idle" /\ replay.stage = "second_ready"
    /\ \E value \in {0, 5000, 10000} :
          DESTINY_STRENGTH' = set_destiny_strength(value)
    /\ UNCHANGED <<worldVars, frameVars, rng, pc, idx, entry, fs_pc, history, fs_start,
                   phase_done, direct_calls, last_call, replay>>

\* the second run returned
ReplayFinish ==
    /\ pc = "idle" /\ replay.stage = "second_running"
    /\ replay' = [replay EXCEPT !.stage = "finished"]
    /\ UNCHANGED <<worldVars, frameVars, DESTINY_STRENGTH, rng, pc, idx, entry,
                   fs_pc, history, fs_start, phase_done, direct_calls, last_call>>

\* an override map without the entries run_month has no use for: those keyed
\* by a label of no agent, and the desire boosts of a domain the Agent has no
\* desire_ field for
without_ignored(overrides, world_agents) ==
    LET labels == {world_agents[k].label : k \in 1..Len(world_agents)}
    IN  [l \in DOMAIN overrides \cap labels |->
           IF overrides[l].desire_boost_domain \in DomainSet
           THEN overrides[l]
           ELSE [overrides[l] EXCEPT !.desire_boost_domain = None,
                                     !.desire_boost_value = 0]]

\* the first run returned: keep its result, and turn to a second World that
\* differs from the first one's start only in lacking those overrides
ReplayStrip ==
    /\ pc = "idle" /\ replay.stage = "first_running"
    /\ replay' = [replay EXCEPT !.stage = "second_ready", !.first = WorldValue]
    /\ agents' = replay.start.agents
    /\ current_month' = replay.start.current_month
    /\ total_months' = replay.start.total_months
    /\ global_themes' = replay.start.global_themes
    /\ destiny_strength' = replay.start.destiny_strength
    /\ agent_overrides' = without_ignored(replay.start.agent_overrides,
                                          replay.start.agents)
    /\ events_feed' = replay.start.events_feed
    /\ rng' = replay.seed
    /\ UNCHANGED <<DESTINY_STRENGTH, pc, idx, entry, frameVars, fs_pc, history, fs_start,
                   phase_done, direct_calls, last_call>>

(***************************************************************************)
(* The Worlds the model starts from.                                       *)
(***************************************************************************)
\* an agent made from default archetype k whose state the caller then set
Built(k, physical, love, career, social, intelligence, energy, trauma, luck) ==
    [from_archetype(get_default_archetypes[k]) EXCEPT
        !.physical = physical, !.love = love, !.career = career,
        !.social = social, !.intelligence = intelligence, !.energy = energy,
        !.trauma_level = trauma, !.luck_enabled = luck]

Fresh(k) == from_archetype(get_default_archetypes[k])

\* AgentMemory of a pair that has met before
OldBond == [trust |-> 9500, attraction |-> 9700, familiarity |-> 9500,
            last_interaction_type |-> "DEEP_RELATIONSHIP",
            last_result |-> "positive", last_time |-> 0]

PopSolo == << Fresh(5) >>
\* opposite traits: warm and loving against cold
PopClash == << from_archetype(Arch("Ember", "ember", 10, 2, 10, 0, 1, 5, 5, 5,
                                   10, 10, 5, 5)),
               [from_archetype(Arch("Frost", "frost", 0, 3, 0, 0, 2, 5, 5, 5,
                                    0, 10, 5, 5))
                  EXCEPT !.trauma_level = 9700] >>
\* equal traits and a shared past
PopBond == << [Built(5, 5000, 9800, 5000, 9900, 5000, 10000, 0, TRUE)
                 EXCEPT !.memory = [l \in {"mira"} |-> OldBond]],
              [from_archetype(Arch("Mira", "mira", 9, 5, 7, 8, 6, 7, 6, 7,
                                   9, 3, 8, 9))
                 EXCEPT !.memory = [l \in {"neer"} |-> OldBond],
                        !.luck_enabled = FALSE] >>
PopTrio == << Fresh(7),
              Built(6, 0, 100, 9900, 0, 10000, 0, 9500, TRUE),
              Built(3, 9900, 5000, 5000, 5000, 0, 10000, 2800, FALSE) >>
PopFive == << Fresh(7), Fresh(1), Fresh(3), Fresh(6), Fresh(5) >>
Populations == {PopSolo, PopClash, PopBond, PopTrio, PopFive}

\* override maps for a population, keyed by the labels of its agents
OverrideMaps(pop) ==
    LET first == pop[1].label
        last == pop[Len(pop)].label
    IN  { EmptyMap,
          [l \in {first, Stale} |->
             IF l = first
             THEN AgentOverride(15000, "love", 50000, TRUE, TRUE, "social")
             ELSE AgentOverride(1000, "rest", 1000, TRUE, TRUE, "rest")],
          [l \in {first, last} |->
             IF l = last
             THEN AgentOverride(0 - 5050, "fame", 1000, FALSE, TRUE, "fame")
             ELSE AgentOverride(0, "rest", 0 - 30000, FALSE, TRUE, "rest")] }

ThemeLists == { <<>>, <<"ROMANCE">>, <<"CHAOS", "MYSTERY", "CAREER">>,
                <<"SELF_HELP", "SCIENCE", "ROMANCE">> }

Seeds == {0, 6, 9, 15}

\* a World built by hand, the module global at its initial 50.0, nothing called
InitWorld ==
    /\ agents \in Populations
    /\ current_month = 0
    /\ total_months \in 0..MaxMonths
    /\ global_themes \in ThemeLists
    /\ destiny_strength \in {2000, 15000}
    /\ agent_overrides \in OverrideMaps(agents)
    /\ events_feed = EmptyMap
    /\ DESTINY_STRENGTH = 5000
    /\ rng \in Seeds

InitFrame ==
    /\ pc = "idle" /\ idx = 1 /\ entry = "none"
    /\ global_theme = None
    /\ agent_interaction_log = EmptyMap
    /\ pending_boosts = EmptyMap
    /\ actions = <<>>
    /\ all_actions = <<>>
    /\ agent_actions_map = EmptyMap
    /\ proposals = <<>>
    /\ resolved = <<>>
    /\ fs_pc = "none"
    /\ history = <<>>
    /\ fs_start = 0
    /\ phase_done = NoPhase
    /\ direct_calls = 0
    /\ last_call = NoCall

Init == InitWorld /\ InitFrame /\ replay = ReplayOff

Next == CallRunMonth \/ MonthSteps \/ FullSimSteps

Spec == Init /\ [][Next]_vars

\* Worlds on which the resolver and the applier are also called directly
InitDirect ==
    /\ InitWorld /\ InitFrame /\ replay = ReplayOff
    /\ Len(agents) >= 3
    /\ global_themes \in {<<"ROMANCE">>, <<"CHAOS", "MYSTERY", "CAREER">>}
    /\ destiny_strength = 2000
    /\ rng \in {0, 9}

NextDirect == CallRunMonth \/ CallEvaluate \/ MonthSteps

SpecDirect == InitDirect /\ [][NextDirect]_vars

\* World(): the dataclass defaults, then initialize_default_world and
\* run_full_simulation
InitDefault ==
    /\ agents = <<>>
    /\ current_month = 0
    /\ total_months = 60
    /\ global_themes = <<>>
    /\ destiny_strength = 5000
    /\ agent_overrides = EmptyMap
    /\ events_feed = EmptyMap
    /\ DESTINY_STRENGTH = 5000
    /\ rng \in Seeds
    /\ InitFrame /\ replay = ReplayOff

NextDefault == InitializeDefaultWorld \/ MonthSteps \/ FullSimSteps

SpecDefault == InitDefault /\ [][NextDefault]_vars

\* two Worlds with the same field values, run_month on each, same seed
InitReplay ==
    /\ InitWorld /\ InitFrame
    /\ total_months >= 1
    /\ replay = [stage |-> "first_ready", start |-> WorldValue, seed |-> rng,
                 first |-> WorldValue]

NextReplay ==
    ReplayCall \/ ReplaySwitch \/ ReplaySetDestiny \/ ReplayFinish \/ MonthSteps

SpecReplay == InitReplay /\ [][NextReplay]_vars

\* override maps with an entry for nobody, or a boost of the unknown "fame"
IgnoredOverrideMaps(pop) ==
    {o \in OverrideMaps(pop) : without_ignored(o, pop) # o}
       \cup { [l \in {Stale} |->
                 AgentOverride(2500, "career", 4000, TRUE, TRUE, "love")],
              [l \in {pop[1].label} |->
                 AgentOverride(0, "fame", 0 - 2000, FALSE, FALSE, None)],
              [l \in {pop[1].label, Stale} |->
                 IF l = Stale
                 THEN AgentOverride(800, "love", 4000, FALSE, TRUE, "career")
                 ELSE AgentOverride(1500, "fame", 0 - 2000, TRUE, FALSE, None)] }

\* a World with such overrides, and the same World without them
InitIgnored ==
    /\ agents \in Populations
    /\ current_month = 0
    /\ total_months = 1
    /\ global_themes \in ThemeLists \ {<<>>}
    /\ destiny_strength = 5000
    /\ agent_overrides \in IgnoredOverrideMaps(agents)
    /\ events_feed = EmptyMap
    /\ DESTINY_STRENGTH = 5000
    /\ rng \in Seeds
    /\ InitFrame
    /\ replay = [stage |-> "first_ready", start |-> WorldValue, seed |-> rng,
                 first |-> WorldValue]

NextIgnored == ReplayCall \/ ReplayStrip \/ ReplayFinish \/ MonthSteps

SpecIgnored == InitIgnored /\ [][NextIgnored]_vars

\* Worlds whose overrides stay in the map from month to month
InitLasting ==
    /\ agents \in {PopSolo, PopClash, PopTrio}
    /\ current_month = 0
    /\ total_months = MaxMonths
    /\ global_themes \in {<<"ROMANCE">>, <<"CHAOS", "MYSTERY", "CAREER">>}
    /\ destiny_strength = 5000
    /\ agent_overrides \in LastingOverrideMaps(agents)
    /\ events_feed = EmptyMap
    /\ DESTINY_STRENGTH = 5000
    /\ rng \in Seeds
    /\ InitFrame /\ replay = ReplayOff

NextLasting == CallRunMonth \/ SetOverrides \/ MonthSteps

SpecLasting == InitLasting /\ [][NextLasting]_vars

\* an agent at the end of its strength next to a fresh one
PopWorn == << Fresh(3),
              [from_archetype(Arch("Worn", "worn", 0, 0, 0, 0, 0, 5, 5, 5,
                                   0, 5, 5, 5))
                 EXCEPT !.energy = 0, !.trauma_level = 10000, !.love = 10000] >>

\* agents on which update_memory_for and update_agent_desires are called
InitCalls ==
    /\ agents \in {PopSolo, PopClash, PopBond, PopWorn}
    /\ current_month = 0
    /\ total_months = 0
    /\ global_themes = <<>>
    /\ destiny_strength = 5000
    /\ agent_overrides = EmptyMap
    /\ events_feed = EmptyMap
    /\ DESTINY_STRENGTH = 5000
    /\ rng = 0
    /\ InitFrame /\ replay = ReplayOff

NextCalls == CallUpdateMemory \/ CallUpdateDesires

SpecCalls == InitCalls /\ [][NextCalls]_vars

\* desires and destiny seeds an agent can be planned with
DesireArgs == {0, 200, 4800, 5000, 9900, 10000}
SeedArgs == {0, 5000, 10000}

\* one agent of even desires 50 but love and rest, a seed and maybe a blessing
InitBias ==
    /\ \E love \in DesireArgs, rest \in DesireArgs, seed \in SeedArgs,
          blessing \in {0, 2000} :
          agents = << [Fresh(5)
                         EXCEPT !.desire_love = love, !.desire_career = 5000,
                                !.desire_social = 5000, !.desire_physical = 5000,
                                !.desire_learning = 5000, !.desire_rest = rest,
                                !.destiny_seed = seed,
                                !.destiny_blessing = blessing] >>
    /\ current_month = 0
    /\ total_months = 0
    /\ global_themes = <<>>
    /\ destiny_strength = 5000
    /\ agent_overrides = EmptyMap
    /\ events_feed = EmptyMap
    /\ DESTINY_STRENGTH = 5000
    /\ rng = 0
    /\ InitFrame /\ replay = ReplayOff

NextBias == CallSetDestinyStrength \/ CallPlanActions

SpecBias == InitBias /\ [][NextBias]_vars

\* AgentMemory(trust=70, attraction=70, familiarity=70): met before, no result kept
Even70 == [trust |-> 7000, attraction |-> 7000, familiarity |-> 7000,
           last_interaction_type |-> None, last_result |-> None,
           last_time |-> NoTime]

\* two agents of destiny seed 1 and equal traits: a romance of chemistry 70.0
PopSeventy ==
    << [from_archetype(Arch("Sol", "sol", 10, 2, 5, 10, 10, 10, 5, 5, 6, 5, 5, 10))
          EXCEPT !.memory = [l \in {"luna"} |-> Even70]],
       [from_archetype(Arch("Luna", "luna", 10, 2, 5, 10, 10, 10, 5, 5, 6, 5, 5, 10))
          EXCEPT !.memory = [l \in {"sol"} |-> Even70]] >>

\* sociability 10 against 0, the first agent content in love and learning: a
\* social event of chemistry 30.0
PopThirty ==
    << [from_archetype(Arch("Sol", "sol", 10, 2, 10, 10, 10, 10, 5, 5, 6, 5, 5, 10))
          EXCEPT !.memory = [l \in {"luna"} |-> Even70],
                 !.love = 10000, !.intelligence = 10000],
       [from_archetype(Arch("Luna", "luna", 10, 2, 0, 10, 10, 10, 5, 5, 6, 5, 5, 10))
          EXCEPT !.memory = [l \in {"sol"} |-> Even70]] >>

\* the opposite pair with a second cold agent next to it
PopFeud ==
    PopClash \o << from_archetype(Arch("Rime", "rime", 0, 3, 0, 0, 2, 5, 5, 5,
                                       0, 10, 5, 5)) >>

\* Worlds of agents that have met, run month by month
InitPairs ==
    /\ agents \in {PopClash, PopBond, PopSeventy, PopThirty, PopTrio, PopFeud}
    /\ current_month = 0
    /\ total_months \in 1..MaxMonths
    /\ global_themes \in {<<"MYSTERY">>, <<"ROMANCE", "CHAOS", "CAREER">>}
    /\ destiny_strength = 5000
    /\ agent_overrides = EmptyMap
    /\ events_feed = EmptyMap
    /\ DESTINY_STRENGTH = 5000
    /\ rng \in Seeds
    /\ InitFrame /\ replay = ReplayOff

NextPairs == CallRunMonth \/ MonthSteps

SpecPairs == InitPairs /\ [][NextPairs]_vars




(***************************************************************************)
(* Properties.                                                             *)
(***************************************************************************)
\* the seven state scalars and the six desires of an agent
Scalars(a) ==
    {a.physical, a.love, a.career, a.social, a.intelligence, a.energy,
     a.trauma_level, a.desire_love, a.desire_career, a.desire_social,
     a.desire_physical, a.desire_learning, a.desire_rest}

\* C1: in every state of every run_month call, so after every phase and every
\* step of a phase, each agent's physical, love, career, social, intelligence,
\* energy, trauma_level and six desires lie in [0,100], whatever the overrides
\* (trauma_increase and desire_boost_value of any sign and size) and the draws.
C1_ClampingInvariant ==
    \A i \in 1..N : \A v \in Scalars(agents[i]) : v >= 0 /\ v <= 10000

\* an agent whose override adds 150 trauma and 500 love desire, held at 100
C1_Witness ==
    /\ phase_done.solo > 0
    /\ \E i \in 1..N :
          /\ agents[i].label \in DOMAIN agent_overrides
          /\ agent_overrides[agents[i].label].trauma_increase > 10000
          /\ agent_overrides[agents[i].label].desire_boost_value > 10000
          /\ agents[i].trauma_level = 10000
          /\ agents[i].desire_love = 10000

\* C2: what plan_agent_actions returned for the agent being planned is
\* exactly 3 actions, exactly one of them big and exactly two small, every one
\* with the agent's label as actor_label and target_labels unset, whatever
\* the agent's locked_action_domain (unset, a known domain, an unknown string).
C2_PlanShape ==
    pc = "target" =>
        /\ Len(actions) = 3
        /\ Cardinality({k \in 1..Len(actions) : actions[k].is_big}) = 1
        /\ Cardinality({k \in 1..Len(actions) : ~actions[k].is_big}) = 2
        /\ \A k \in 1..Len(actions) :
              /\ actions[k].actor_label = agents[idx].label
              /\ actions[k].target_labels = NoneList

\* a plan made for an agent locked on a domain that is none of the six
C2_Witness ==
    /\ pc = "target"
    /\ agents[idx].locked_action_domain # None
    /\ agents[idx].locked_action_domain \notin DomainSet
    /\ Len(actions) = 3

\* C3: after assign_action_targets, no action has its actor among its
\* targets; a BIG_SOCIAL_EVENT has exactly min(3, N-1) pairwise distinct
\* targets; a DEEP_RELATIONSHIP, CASUAL_DATE or LIGHT_SOCIAL has exactly 1
\* target when N > 1; when N = 1 no action has a target; an action of a
\* non-social type never has targets.
C3_TargetShape ==
    \A k \in 1..Len(all_actions) :
        LET a == all_actions[k]
            targets == ListOf(a.target_labels)
        IN  /\ a.actor_label \notin Range(targets)
            /\ Cardinality(Range(targets)) = Len(targets)
            /\ a.action_type = "BIG_SOCIAL_EVENT" /\ N > 1
                  => Len(targets) = Min(3, N - 1)
            /\ a.action_type \in SocialActions \ {"BIG_SOCIAL_EVENT"} /\ N > 1
                  => Len(targets) = 1
            /\ N = 1 => ~Truthy(a.target_labels)
            /\ a.action_type \notin SocialActions => ~Truthy(a.target_labels)

\* five agents, a big social event with three targets next to a one-target
\* social action and a solo action
C3_Witness ==
    /\ N = 5
    /\ \E k \in 1..Len(all_actions) :
          /\ all_actions[k].action_type = "BIG_SOCIAL_EVENT"
          /\ Len(ListOf(all_actions[k].target_labels)) = 3
    /\ \E k \in 1..Len(all_actions) :
          /\ all_actions[k].action_type \in SocialActions \ {"BIG_SOCIAL_EVENT"}
          /\ Len(ListOf(all_actions[k].target_labels)) = 1
    /\ \E k \in 1..Len(all_actions) :
          all_actions[k].action_type \notin SocialActions

\* C4: within a run_month that executes, a phase has handled nothing before
\* the phase ahead of it has handled everything: planning starts after all N
\* desire updates, evaluation after all N plans and target assignments,
\* outcomes after every proposal is evaluated, solo effects after every
\* resolved interaction is applied, diaries after all N solo effects.
C4_PhaseOrder ==
    entry = "run_month" =>
        /\ phase_done.plan > 0 => phase_done.desires = N
        /\ phase_done.target <= phase_done.plan
        /\ phase_done.evaluate > 0 =>
              phase_done.plan = N /\ phase_done.target = N
        /\ phase_done.apply > 0 => phase_done.evaluate = Len(proposals)
        /\ phase_done.solo > 0 =>
              phase_done.apply = Len(resolved)
              /\ phase_done.evaluate = Len(proposals)
        /\ phase_done.diary > 0 => phase_done.solo = N

\* a month of three or more agents in its diary phase, with outcomes applied
C4_Witness ==
    /\ entry = "run_month" /\ pc = "diary"
    /\ N >= 3
    /\ phase_done.diary > 0
    /\ phase_done.apply > 1

\* the resolved interaction of a proposal: its fields kept, its targets split
IsResolutionOf(r, p) ==
    /\ r.initiator_label = p.initiator_label
    /\ r.target_labels = p.target_labels
    /\ r.action_type = p.action_type
    /\ Range(r.accepted_targets) \cap Range(r.rejected_targets) = {}
    /\ Range(r.accepted_targets) \cup Range(r.rejected_targets)
          = Range(p.target_labels)
    /\ Len(r.accepted_targets) + Len(r.rejected_targets) = Len(p.target_labels)
    /\ \A l \in Range(p.target_labels) :
          _get_agent_by_label(agents, l) = 0 => l \in Range(r.rejected_targets)

\* the proposals whose initiator label names an agent, in order
WithInitiator(ps) ==
    SelectSeq(ps, LAMBDA p : _get_agent_by_label(agents, p.initiator_label) # 0)

\* C5 as stated: when evaluate_interaction_proposals has returned, every
\* proposal passed to it, a proposal whose initiator label names no agent
\* included, has a resolved interaction in the result.
C5_EveryProposalResolved ==
    pc = "apply" =>
        \A k \in 1..Len(proposals) :
            \E j \in 1..Len(resolved) : IsResolutionOf(resolved[j], proposals[k])

\* C5: when evaluate_interaction_proposals has returned, the result holds, in
\* order, exactly one resolved interaction for each proposal whose initiator
\* label names an agent: accepted_targets and rejected_targets are disjoint
\* and together hold each proposed label exactly once, and every label that
\* names no agent is in rejected_targets; a proposal whose initiator label
\* names no agent has no resolved interaction.
C5_ResolvedPartition ==
    pc = "apply" =>
        LET ps == WithInitiator(proposals)
        IN  /\ Len(resolved) = Len(ps)
            /\ \A k \in 1..Len(ps) : IsResolutionOf(resolved[k], ps[k])

\* a direct call with a proposal of an unknown initiator, and a resolved
\* interaction that accepted one label and rejected a stale one
C5_Witness ==
    /\ pc = "apply" /\ entry = "direct"
    /\ \E k \in 1..Len(proposals) :
          _get_agent_by_label(agents, proposals[k].initiator_label) = 0
    /\ \E j \in 1..Len(resolved) :
          /\ Stale \in Range(resolved[j].rejected_targets)
          /\ resolved[j].accepted_targets # <<>>

\* what an agent remembers of a label; NoneList when it remembers nothing
MemoryOf(a, l) == IF l \in DOMAIN a.memory THEN Some(a.memory[l]) ELSE NoneList

\* the entries of a list that are beyond the length of an older one
Added(old, new) == SubSeq(new, Len(old) + 1, Len(new))

\* one pass of the outcome loop leaves every rejected target alone
RejectedUntouched ==
    pc = "apply" /\ idx <= Len(resolved) =>
        LET r == resolved[idx]
            i == _get_agent_by_label(agents, r.initiator_label)
            new_events == Added(get_month_entries(events_feed, current_month),
                                get_month_entries(events_feed', current_month))
        IN  /\ \A l \in Range(r.rejected_targets) :
                  LET t == _get_agent_by_label(agents, l)
                  IN  /\ i # 0 => MemoryOf(agents'[i], l) = MemoryOf(agents[i], l)
                      /\ t # 0 =>
                            /\ agents'[t] = agents[t]
                            /\ get_month_entries(agent_interaction_log', l)
                                  = get_month_entries(agent_interaction_log, l)
                            /\ \A e \in Range(new_events) :
                                  agents[t].name \notin {e.who, e.other}
                            /\ \A line \in Range(Added(
                                  get_month_entries(agent_interaction_log,
                                                    r.initiator_label),
                                  get_month_entries(agent_interaction_log',
                                                    r.initiator_label))) :
                                  line.with # agents[t].name
            /\ r.accepted_targets = <<>> =>
                  /\ agents' = agents
                  /\ events_feed' = events_feed
                  /\ agent_interaction_log' = agent_interaction_log

\* the planned actions of an agent that are not social
NonSocial(actions_list) ==
    SelectSeq(actions_list, LAMBDA a : a.action_type \notin SocialActions)

\* the solo phase gives an agent the effects of its non-social actions only
SocialSkippedInSolo ==
    pc = "solo" /\ idx <= N =>
        LET agent_actions == get_month_entries(agent_actions_map,
                                               agents[idx].label)
        IN  /\ agents'[idx]
                  = apply_solo_action_effects(agents[idx],
                                              NonSocial(agent_actions))
            /\ \A j \in 1..N : j # idx => agents'[j] = agents[j]

\* C6: a rejected target, existing or stale, causes no mutation: applying a
\* resolved interaction leaves the state, trauma and memory of each rejected
\* target unchanged and the initiator's memory of it unchanged, emits no event
\* and no log line for the pair, and when every target rejected changes
\* nothing at all; in the solo phase a social action changes no state either.
C6_RejectedNoMutation == [][RejectedUntouched /\ SocialSkippedInSolo]_vars

\* an interaction of a known initiator has been applied that had an accepted
\* target next to a rejected stale one
C6_Witness ==
    /\ pc = "apply" /\ idx > 1 /\ idx <= Len(resolved) + 1
    /\ LET r == resolved[idx - 1]
       IN  /\ r.accepted_targets # <<>>
           /\ Stale \in Range(r.rejected_targets)
           /\ _get_agent_by_label(agents, r.initiator_label) # 0

\* C7 as stated: run_month on two Worlds with identical field values, under
\* identical draws, leaves the two Worlds with identical field values
\* (agents with their states, memories and diaries, counters, events feed).
C7_SameWorldSameResult ==
    replay.stage = "finished" => WorldValue = replay.first

\* C8: run_full_simulation started at month 0 returns with current_month =
\* total_months and a history of exactly total_months + 1 groups, the groups
\* of months 0, 1, ..., total_months in this order, each with exactly one
\* snapshot per agent, in the order of the agents, carrying the group's month.
C8_HistoryShape ==
    fs_pc = "done" /\ fs_start = 0 =>
        /\ current_month = total_months
        /\ Len(history) = (total_months + 1) * N
        /\ \A g \in 0..total_months : \A i \in 1..N :
              /\ history[g * N + i].month = g
              /\ history[g * N + i].label = agents[i].label

\* the default world simulated to its end: 13 groups of 10 snapshots
C8_Witness ==
    /\ fs_pc = "done" /\ fs_start = 0
    /\ N = Len(get_default_archetypes)
    /\ total_months > 0
    /\ Len(history) = (total_months + 1) * Len(get_default_archetypes)
    /\ history[Len(history)].month = total_months

\* one call of advance_month, as run_month makes it
AdvanceContract ==
    pc = "advance" =>
        /\ current_month < total_months =>
              /\ current_month' = current_month + 1
              /\ global_themes # <<>>
              /\ global_theme'
                    = global_themes[((current_month' - 1) % Len(global_themes)) + 1]
        /\ current_month >= total_months =>
              global_theme' = None /\ UNCHANGED worldVars
        /\ global_theme' = None => current_month >= total_months

\* C9 as stated: for any themes list, advance_month below the horizon adds 1
\* to current_month and returns the theme at index (new current_month - 1)
\* mod the number of themes; at the horizon it returns None and changes
\* nothing; and it returns None only when the horizon had been reached.
C9_AdvanceMonth == [][AdvanceContract]_vars

\* run_month at the horizon changes no field of the World
HorizonNoOp ==
    pc = "advance" /\ current_month >= total_months =>
        /\ UNCHANGED worldVars
        /\ pc' = "idle"

\* C10: run_month called with current_month >= total_months changes nothing
\* (current_month, every agent's state, desires, memory, blessing, locked
\* domain and diary, the events feed), overrides or not; and current_month
\* never exceeds total_months.
C10_HorizonFrame == [](current_month <= total_months) /\ [][HorizonNoOp]_vars

\* run_month has returned from a call at the horizon of a World with
\* overrides, after the months before it were simulated
C10_Witness ==
    /\ pc = "idle" /\ global_theme = None
    /\ current_month = total_months /\ current_month >= 1
    /\ global_themes # <<>>
    /\ agent_overrides # EmptyMap
    /\ \E i \in 1..N : agents[i].diary_log # EmptyMap


\* a value held to [0,100]
Bounded(v) == IF v < 0 THEN 0 ELSE IF v > 10000 THEN 10000 ELSE v

\* one call of update_memory_for: the peer's entry is the old one, or
\* (50, 50, 0) when there was none, with the deltas added and held to [0,100];
\* the entries of the other peers stay
MemoryCallAdds ==
    direct_calls' = direct_calls + 1 /\ last_call'.op = "update_memory_for" =>
        LET c == last_call'
            old == agents[c.index].memory
            new == agents'[c.index].memory
            known == c.peer \in DOMAIN old
            trust0 == IF known THEN old[c.peer].trust ELSE 5000
            attraction0 == IF known THEN old[c.peer].attraction ELSE 5000
            familiarity0 == IF known THEN old[c.peer].familiarity ELSE 0
        IN  /\ DOMAIN new = DOMAIN old \cup {c.peer}
            /\ new[c.peer].trust = Bounded(trust0 + c.args[1])
            /\ new[c.peer].attraction = Bounded(attraction0 + c.args[2])
            /\ new[c.peer].familiarity = Bounded(familiarity0 + c.args[3])
            /\ \A l \in DOMAIN old \ {c.peer} : new[l] = old[l]

\* every memory entry of every agent has its three levels in [0,100]
MemoryInRange ==
    \A i \in 1..N : \A l \in DOMAIN agents[i].memory :
        \A v \in {agents[i].memory[l].trust, agents[i].memory[l].attraction,
                  agents[i].memory[l].familiarity} : v >= 0 /\ v <= 10000

\* C11: after any sequence of update_memory_for calls, with deltas of any
\* sign and size and any peer label, every memory entry's trust, attraction
\* and familiarity are in [0,100]; the first call for a peer makes the entry
\* with (50, 50, 0), and every call adds its deltas to the entry it finds.
C11_MemoryBounds == []MemoryInRange /\ [][MemoryCallAdds]_vars

\* a second call for a peer that names no agent, on the entry the first call
\* made, with trust held at 100 and attraction at 0
C11_Witness ==
    /\ direct_calls = 2 /\ last_call.op = "update_memory_for"
    /\ last_call.peer = Stale
    /\ Stale \in DOMAIN last_call.before.memory
    /\ last_call.before.memory[Stale].trust < 10000
    /\ agents[last_call.index].memory[Stale].trust = 10000
    /\ agents[last_call.index].memory[Stale].attraction = 0
    /\ agents[last_call.index].memory[Stale].familiarity > 0


\* the chemistry an accepted pair is judged by: the raw chemistry, then the
\* initiator's destiny bias, then the target's
FinalChemistry(initiator, target, action_type) ==
    apply_destiny_bias(target,
        apply_destiny_bias(initiator,
            _compute_chemistry(initiator, target, action_type)))

\* the World as the outcome loop finds it at the k-th accepted target of the
\* resolved interaction it is about to apply
BeforePair(k) ==
    apply_targets([agents |-> agents, rng |-> rng, events |-> events_feed,
                   logs |-> agent_interaction_log],
                  _get_agent_by_label(agents, resolved[idx].initiator_label),
                  SubSeq(resolved[idx].accepted_targets, 1, k - 1),
                  resolved[idx].action_type, current_month)

\* the quality the rule gives a chemistry: above 70, below 30, between
QualityRule(chemistry) ==
    IF chemistry > 7000 THEN "positive"
    ELSE IF chemistry < 3000 THEN "negative"
    ELSE "neutral"

\* one pass of the outcome loop records, for each accepted pair, the quality
\* the rule gives its final chemistry: in both memories and in the event
QualityRecorded ==
    pc = "apply" /\ idx <= Len(resolved) =>
        LET r == resolved[idx]
            i == _get_agent_by_label(agents, r.initiator_label)
            new_events == Added(get_month_entries(events_feed, current_month),
                                get_month_entries(events_feed', current_month))
        IN  i # 0 =>
              \A k \in 1..Len(r.accepted_targets) :
                LET t == _get_agent_by_label(agents, r.accepted_targets[k])
                    pre == BeforePair(k).agents
                    q == QualityRule(FinalChemistry(pre[i], pre[t], r.action_type))
                IN  /\ agents'[i].memory[r.accepted_targets[k]].last_result = q
                    /\ agents'[t].memory[r.initiator_label].last_result = q
                    /\ new_events[k].quality = q

\* C12: for every accepted pair the quality kept as last_result in both
\* agents' memories and written into the event is positive iff the final
\* chemistry is above 70, negative iff it is below 30, and neutral otherwise;
\* a chemistry of exactly 70 or exactly 30 is neutral.
C12_OutcomeQuality == [][QualityRecorded]_vars

\* a romance of two agents who remembered each other at (70, 70, 70) was
\* applied at chemistry 70.0: neutral, trust +2, attraction +2.5
C12_Witness ==
    /\ pc = "apply" /\ idx = 2
    /\ resolved[1].action_type \in RomanticActions
    /\ resolved[1].accepted_targets = <<"luna">>
    /\ agents[1].memory["luna"].last_result = "neutral"
    /\ agents[1].memory["luna"].trust = 7200
    /\ agents[1].memory["luna"].attraction = 7250
    /\ agents[2].memory["sol"].last_result = "neutral"
    /\ get_month_entries(events_feed, current_month)[1].quality = "neutral"


IsPrefix(old, new) ==
    Len(old) <= Len(new) /\ SubSeq(new, 1, Len(old)) = old

\* how many entries of a list equal x
Count(seq, x) == Cardinality({k \in 1..Len(seq) : seq[k] = x})

\* one pass of the outcome loop: one event per accepted target under the
\* current month, in order and naming the pair; one line more per accepted
\* target in the initiator's log and one in that target's log; nothing else
OneEventOneLinePerPair ==
    pc = "apply" /\ idx <= Len(resolved) =>
        LET r == resolved[idx]
            i == _get_agent_by_label(agents, r.initiator_label)
            accepted == r.accepted_targets
            old_events == get_month_entries(events_feed, current_month)
            new_events == Added(old_events,
                                get_month_entries(events_feed', current_month))
            lines(l) == Added(get_month_entries(agent_interaction_log, l),
                              get_month_entries(agent_interaction_log', l))
            labels == DOMAIN agent_interaction_log
                         \cup DOMAIN agent_interaction_log'
                         \cup {agents[k].label : k \in 1..N}
        IN  i # 0 =>
              /\ IsPrefix(old_events,
                          get_month_entries(events_feed', current_month))
              /\ Len(new_events) = Len(accepted)
              /\ \A k \in 1..Len(accepted) :
                    /\ new_events[k].who = agents[i].name
                    /\ new_events[k].other
                          = agents[_get_agent_by_label(agents, accepted[k])].name
                    /\ new_events[k].action = r.action_type
              /\ \A m \in (DOMAIN events_feed \cup DOMAIN events_feed')
                          \ {current_month} :
                    get_month_entries(events_feed', m)
                       = get_month_entries(events_feed, m)
              /\ \A l \in labels :
                    /\ IsPrefix(get_month_entries(agent_interaction_log, l),
                                get_month_entries(agent_interaction_log', l))
                    /\ Len(lines(l))
                          = (IF l = r.initiator_label THEN Len(accepted) ELSE 0)
                            + Count(accepted, l)
                    /\ \A k \in 1..Len(lines(l)) :
                          lines(l)[k].action = r.action_type
              /\ \A k \in 1..Len(accepted) :
                    /\ \E n \in 1..Len(lines(r.initiator_label)) :
                          lines(r.initiator_label)[n].with
                             = agents[_get_agent_by_label(agents, accepted[k])].name
                    /\ \E n \in 1..Len(lines(accepted[k])) :
                          lines(accepted[k])[n].with = agents[i].name

\* C14: in each executed month, apply_interaction_outcomes adds exactly one
\* event under the current month for every (initiator, accepted target) pair of
\* every resolved interaction, and exactly one log line to the initiator's and
\* one to the target's interaction log for that pair; it adds no event and no
\* log line for a rejected target.
C14_OneEventPerAcceptedPair == [][OneEventOneLinePerPair]_vars

\* an interaction with one accepted and one rejected target has been applied
\* in a month that already had events
C14_Witness ==
    /\ pc = "apply" /\ idx > 1 /\ idx <= Len(resolved) + 1
    /\ LET r == resolved[idx - 1]
       IN  /\ r.accepted_targets # <<>>
           /\ r.rejected_targets # <<>>
           /\ Len(get_month_entries(events_feed, current_month))
                 > Len(r.accepted_targets)
           /\ r.initiator_label \in DOMAIN agent_interaction_log
           /\ Len(agent_interaction_log[r.initiator_label])
                 >= Len(r.accepted_targets)


\* C15: an override keyed by a label of no agent, and a desire boost whose
\* domain is none of love, career, social, physical, learning, rest, are
\* ignored: run_month ends with the same agent states, desires and events as
\* the same month run on the same World without that override, resp. with the
\* override lacking the boost.
C15_IgnoredOverrides ==
    replay.stage = "finished" =>
        /\ replay.start.agent_overrides # agent_overrides
        /\ agents = replay.first.agents
        /\ events_feed = replay.first.events_feed
        /\ current_month = replay.first.current_month

\* both months ran through all their phases, the first with an override for
\* nobody next to one that acts and boosts the unknown domain "fame"
C15_Witness ==
    /\ replay.stage = "finished"
    /\ phase_done.solo > 0
    /\ Stale \in DOMAIN replay.start.agent_overrides
    /\ current_month \in DOMAIN events_feed
    /\ \E l \in DOMAIN agent_overrides :
          /\ replay.start.agent_overrides[l].desire_boost_domain = "fame"
          /\ replay.start.agent_overrides[l].desire_boost_value # 0
          /\ agent_overrides[l].desire_boost_domain = None
          /\ \E i \in 1..N :
                agents[i].label = l /\ agents[i].destiny_blessing = 2000


\* the desire of a domain as the planner ranks it
Adjusted(agent, domain) == apply_destiny_bias(agent, DesireOf(agent, domain))

\* the position of a domain in love, career, social, physical, learning, rest
Position(domain) == CHOOSE k \in 1..Len(Domains) : Domains[k] = domain

\* d ranks before e: higher adjusted desire, on a tie the earlier domain
RanksBefore(agent, d, e) ==
    \/ Adjusted(agent, d) > Adjusted(agent, e)
    \/ Adjusted(agent, d) = Adjusted(agent, e) /\ Position(d) < Position(e)

\* the domain no other domain ranks before
TopRanked(agent) ==
    CHOOSE d \in DomainSet :
        \A e \in DomainSet \ {d} : RanksBefore(agent, d, e)

\* the domain the big action is to come from
BigDomain(agent) ==
    IF agent.locked_action_domain \in DomainSet
    THEN agent.locked_action_domain
    ELSE TopRanked(agent)

\* C16: the big action's type is the big-action table entry of the agent's
\* locked_action_domain when that is set and one of the six domains; when it
\* is unset or unknown, it is the table entry of the domain with the highest
\* destiny-bias-adjusted desire, ties going to the earliest of love, career,
\* social, physical, learning, rest.
C16_BigActionDomain ==
    pc = "target" =>
        /\ Len(actions) >= 1
        /\ actions[1].is_big
        /\ actions[1].action_type = _desire_to_big_action(BigDomain(agents[idx]))

\* an agent locked on the unknown domain "fame" was planned for; its two
\* highest adjusted desires are equal, and its big action is not the rest the
\* table gives for an unknown name
C16_Witness ==
    /\ pc = "target"
    /\ agents[idx].locked_action_domain = "fame"
    /\ actions[1].action_type # "MAJOR_REST"
    /\ \E e \in DomainSet \ {TopRanked(agents[idx])} :
          Adjusted(agents[idx], e) = Adjusted(agents[idx], TopRanked(agents[idx]))


\* an agent with each of its six desires set to v
WithDesires(agent, v) ==
    [agent EXCEPT !.desire_love = v, !.desire_career = v, !.desire_social = v,
                  !.desire_physical = v, !.desire_learning = v, !.desire_rest = v]

\* the six desires of an agent
DesiresOf(agent) == [d \in DomainSet |-> DesireOf(agent, d)]

\* C17: update_agent_desires recomputes the six desires from scratch: the
\* desires it leaves are those it leaves on the same agent with any other
\* previous desires, calling it again on its result changes nothing, and it
\* leaves every field other than the six desires as it was.
C17_DesiresFromScratch ==
    last_call.op = "update_agent_desires" =>
        LET before == last_call.before
            after == agents[last_call.index]
        IN  /\ \A v \in {0, 3300, 10000} :
                  DesiresOf(update_agent_desires(WithDesires(before, v),
                                                 last_call.theme))
                     = DesiresOf(after)
            /\ update_agent_desires(after, last_call.theme) = after
            /\ WithDesires(after, 0) = WithDesires(before, 0)

\* the desires of an agent that had desires from an earlier call, under a
\* different theme, have been recomputed to other values
C17_Witness ==
    /\ last_call.op = "update_agent_desires"
    /\ direct_calls = 2
    /\ last_call.before.desire_love > 0
    /\ last_call.before.desire_rest > 0
    /\ agents[last_call.index].desire_love # last_call.before.desire_love
    /\ agents[last_call.index].desire_love < 10000


\* the table of theme bonuses, in hundredths of a point
BonusTable(theme, domain) ==
    IF theme = "ROMANCE" /\ domain = "love" THEN 1500
    ELSE IF theme \in {"CAREER", "CAREER_HUSTLE"} /\ domain = "career" THEN 1500
    ELSE IF theme = "CHAOS" /\ domain \in {"love", "career", "social"} THEN 750
    ELSE IF theme = "CHAOS" /\ domain = "rest" THEN 1050
    ELSE IF theme = "SELF_HELP" /\ domain \in {"learning", "physical"} THEN 1500
    ELSE IF theme \in {"SCIENCE", "CURIOSITY"} /\ domain = "learning" THEN 1500
    ELSE 0

\* a desire computed under a theme against the same desire computed under no
\* theme: the table's bonus more, as far as the limits 0 and 100 allow (a
\* desire held at 0 without the theme may have been below 0 before the bonus)
BonusAdded(without, with, bonus) ==
    IF bonus = 0 THEN with = without
    ELSE IF without > 0 THEN with = Min(10000, without + bonus)
    ELSE with >= 0 /\ with <= bonus

Highest(agent, among) ==
    CHOOSE d \in among : \A e \in among \ {d} : RanksBefore(agent, d, e)

\* the two highest-ranked domains other than the big action's domain
TwoAfterBig(agent) ==
    LET rest == DomainSet \ {BigDomain(agent)}
        first == Highest(agent, rest)
    IN  <<first, Highest(agent, rest \ {first})>>

\* C19: for any agent, one whose valid locked_action_domain differs from its
\* top-ranked desire included, the two small actions plan_agent_actions returns
\* are the small-action table entries of the two highest-ranked domains (by
\* destiny-bias-adjusted desire) that are not the big action's domain, so that
\* the three actions belong to three pairwise distinct domains.
C19_SmallActionDomains ==
    pc = "target" =>
        /\ Len(actions) = 3
        /\ {actions[2].action_type, actions[3].action_type}
              = {_desire_to_small_action(TwoAfterBig(agents[idx])[1]),
                 _desire_to_small_action(TwoAfterBig(agents[idx])[2])}
        /\ actions[2].action_type # actions[3].action_type


\* the agents as one pass of the outcome loop would leave them had the
\* generator been in state r
AppliedUnder(r) ==
    apply_one([agents |-> agents, rng |-> r, events |-> events_feed,
               logs |-> agent_interaction_log],
              resolved[idx], current_month).agents

\* a participant of an applied interaction whose luck is off ends with the
\* state it would have under any other draws
LuckOffUnaffected ==
    pc = "apply" /\ idx <= Len(resolved) =>
        LET r == resolved[idx]
            taking_part == {r.initiator_label} \cup Range(r.accepted_targets)
        IN  \A k \in 1..N :
              agents[k].label \in taking_part /\ ~agents[k].luck_enabled =>
                  \A draws \in RngStates :
                      /\ AppliedUnder(draws)[k].love = agents'[k].love
                      /\ AppliedUnder(draws)[k].social = agents'[k].social

\* C20: luck noise affects only the state deltas of the agent it was drawn
\* for: an agent with luck_enabled = False receives, in every accepted
\* interaction, love and social deltas that depend on no luck draw.
C20_LuckOwnDeltasOnly == [][LuckOffUnaffected]_vars


\* the memory entry update_memory_for starts from: the one kept, or a new one
EntryOrNew(a, l) ==
    IF l \in DOMAIN a.memory THEN a.memory[l]
    ELSE [trust |-> 5000, attraction |-> 5000, familiarity |-> 0,
          last_interaction_type |-> None, last_result |-> None,
          last_time |-> NoTime]

\* the entry the claim expects after a pair of the given chemistry
EntryAfter(old, chemistry, action_type, month) ==
    LET romantic == action_type \in {"DEEP_RELATIONSHIP", "CASUAL_DATE"}
    IN  [trust |-> Bounded(old.trust + (IF romantic
                                        THEN (chemistry - 5000) \div 10
                                        ELSE (chemistry - 5000) \div 12)),
         attraction |-> IF romantic
                        THEN Bounded(old.attraction + (chemistry - 5000) \div 8)
                        ELSE old.attraction,
         familiarity |-> Bounded(old.familiarity
                                 + (IF romantic THEN 1000 ELSE 800)),
         last_interaction_type |-> action_type,
         last_result |-> QualityRule(chemistry),
         last_time |-> month]

\* one pass of the outcome loop leaves, for each accepted pair, both memory
\* entries at the old entry plus the deltas of the pair's chemistry
BothMemoriesUpdated ==
    pc = "apply" /\ idx <= Len(resolved) =>
        LET r == resolved[idx]
            i == _get_agent_by_label(agents, r.initiator_label)
        IN  i # 0 =>
              \A k \in 1..Len(r.accepted_targets) :
                LET t == _get_agent_by_label(agents, r.accepted_targets[k])
                    chemistry == FinalChemistry(agents[i], agents[t],
                                                r.action_type)
                IN  /\ agents[t].label \in DOMAIN agents'[i].memory
                    /\ agents[i].label \in DOMAIN agents'[t].memory
                    /\ agents'[i].memory[agents[t].label]
                          = EntryAfter(EntryOrNew(agents[i], agents[t].label),
                                       chemistry, r.action_type, current_month)
                    /\ agents'[t].memory[agents[i].label]
                          = EntryAfter(EntryOrNew(agents[t], agents[i].label),
                                       chemistry, r.action_type, current_month)

\* C21: after each accepted (initiator, target) pair is applied, the
\* initiator's memory of the target and the target's memory of the initiator
\* both exist and have received the same deltas (trust (chemistry-50)/10
\* romantic or /12 social, attraction (chemistry-50)/8 romantic only,
\* familiarity +10 romantic or +8 social, each held in [0,100]), and both have
\* last_interaction_type the action tag, last_result the outcome quality and
\* last_time the current month.
C21_BothMemoriesUpdated == [][BothMemoriesUpdated]_vars

\* a social event with two accepted targets who had no memory of the initiator
\* has been applied
C21_Witness ==
    /\ pc = "apply" /\ idx > 1 /\ idx <= Len(resolved) + 1
    /\ LET r == resolved[idx - 1]
           i == _get_agent_by_label(agents, r.initiator_label)
       IN  /\ r.action_type = "BIG_SOCIAL_EVENT"
           /\ Len(r.accepted_targets) >= 2
           /\ i # 0
           /\ \A l \in Range(r.accepted_targets) :
                 /\ l \in DOMAIN agents[i].memory
                 /\ agents[i].memory[l].familiarity = 800
                 /\ agents[i].memory[l].last_time = current_month


\* C22: within one month, the chemistry of every accepted pair is computed
\* from the memories as they stood when the outcome phase began: the memory
\* entry a chemistry computation reads (the initiator's entry for the target)
\* has not been updated by another accepted interaction of the same month.
C22_ChemistryFromPhaseStart ==
    pc = "apply" /\ idx <= Len(resolved) /\ entry = "run_month" =>
        LET r == resolved[idx]
            i == _get_agent_by_label(agents, r.initiator_label)
        IN  i # 0 =>
              \A l \in Range(r.accepted_targets) :
                  l \in DOMAIN agents[i].memory =>
                      agents[i].memory[l].last_time # current_month


\* the generator's state after n draws
RECURSIVE Drawn(_, _)
Drawn(r, n) == IF n = 0 THEN r ELSE Drawn(NextRng(r), n - 1)

\* the steps of the acceptance probability in the order of the claim, with
\* probabilities in ten-thousandths: whether the target accepts, the jitter
\* drawn in generator state r and the deciding draw in the state after it
Accepts(target, initiator, action_type, r) ==
    LET romantic == action_type \in {"DEEP_RELATIONSHIP", "CASUAL_DATE"}
        known == initiator.label \in DOMAIN target.memory
        trust == IF known THEN target.memory[initiator.label].trust ELSE 5000
        last == IF known THEN target.memory[initiator.label].last_result
                ELSE None
        base == 5000
        by_energy == (base * target.energy) \div 10000
        by_rest == (by_energy * (10000 - target.desire_rest \div 2)) \div 10000
        by_trauma == (by_rest * (10000 - target.trauma_level \div 2)) \div 10000
        plus_desire == by_trauma
                       + (IF romantic THEN (target.desire_love * 3) \div 10
                          ELSE (target.desire_social * 3) \div 10)
        plus_trust == plus_desire + (trust * 2) \div 10
        penalised == IF last = "negative" THEN (plus_trust * 3) \div 10
                     ELSE IF last = "neutral" THEN (plus_trust * 7) \div 10
                     ELSE plus_trust
        plus_warmth == IF romantic THEN penalised + target.warmth * 100
                       ELSE penalised
        plus_sociability == plus_warmth + target.sociability * 100
        span == target.impulse * 200
        jitter == (0 - span) + ((2 * span) * Random01(r)) \div 10000
        p == Bounded(plus_sociability + jitter)
    IN  Random01(NextRng(r)) < p

\* one pass of the resolver decides each existing target of the proposal by
\* the probability of the claim, two draws per existing target
DecidedByProbability ==
    pc = "evaluate" /\ idx <= Len(proposals) =>
        LET proposal == proposals[idx]
            i == _get_agent_by_label(agents, proposal.initiator_label)
            labels == proposal.target_labels
            existing(k) == {j \in 1..(k - 1) :
                               _get_agent_by_label(agents, labels[j]) # 0}
        IN  i # 0 =>
              /\ Len(resolved') = Len(resolved) + 1
              /\ \A k \in 1..Len(labels) :
                    LET t == _get_agent_by_label(agents, labels[k])
                    IN  t # 0 =>
                          (labels[k] \in Range(resolved'[Len(resolved')].accepted_targets)
                             <=> Accepts(agents[t], agents[i],
                                         proposal.action_type,
                                         Drawn(rng, 2 * Cardinality(existing(k)))))

C24_MemorySymmetric ==
    \A i \in 1..N : \A j \in (i + 1)..N :
        LET a == agents[i]
            b == agents[j]
        IN  /\ b.label \in DOMAIN a.memory <=> a.label \in DOMAIN b.memory
            /\ b.label \in DOMAIN a.memory =>
                  /\ a.memory[b.label].trust = b.memory[a.label].trust
                  /\ a.memory[b.label].attraction = b.memory[a.label].attraction
                  /\ a.memory[b.label].familiarity
                        = b.memory[a.label].familiarity
                  /\ a.memory[b.label].last_interaction_type
                        = b.memory[a.label].last_interaction_type
                  /\ a.memory[b.label].last_result
                        = b.memory[a.label].last_result
                  /\ a.memory[b.label].last_time = b.memory[a.label].last_time

\* in the second month two agents remember each other from a romance of the
\* first month and a meeting of the second
C24_Witness ==
    /\ current_month = 2
    /\ \E i \in 1..N : \E j \in 1..N :
          /\ i # j
          /\ agents[j].label \in DOMAIN agents[i].memory
          /\ agents[i].label \in DOMAIN agents[j].memory
          /\ agents[i].memory[agents[j].label].attraction # 5000
          /\ agents[i].memory[agents[j].label].last_time = 2
          /\ agents[i].memory[agents[j].label].last_result # None


\* an agent with the four fields the outcome applier may write taken from
\* another agent
WithOutcomeFields(a, from) ==
    [a EXCEPT !.love = from.love, !.social = from.social,
              !.trauma_level = from.trauma_level, !.memory = from.memory]

\* one pass of the outcome loop writes love, social, trauma_level and memory
\* of the initiator and the accepted targets and nothing else; trauma_level
\* only in a romantic interaction one of whose pairs, with that agent in it,
\* came out negative
OnlyOutcomeFields ==
    pc = "apply" /\ idx <= Len(resolved) =>
        LET r == resolved[idx]
            taking_part == IF _get_agent_by_label(agents, r.initiator_label) # 0
                              /\ r.accepted_targets # <<>>
                           THEN {r.initiator_label} \cup Range(r.accepted_targets)
                           ELSE {}
            new_events == Added(get_month_entries(events_feed, current_month),
                                get_month_entries(events_feed', current_month))
        IN  /\ Len(agents') = Len(agents)
            /\ \A k \in 1..N :
                  /\ WithOutcomeFields(agents'[k], agents[k]) = agents[k]
                  /\ agents[k].label \notin taking_part => agents'[k] = agents[k]
                  /\ agents'[k].trauma_level # agents[k].trauma_level =>
                        /\ r.action_type \in {"DEEP_RELATIONSHIP", "CASUAL_DATE"}
                        /\ \E n \in 1..Len(new_events) :
                              /\ new_events[n].quality = "negative"
                              /\ agents[k].name
                                    \in {new_events[n].who, new_events[n].other}

TraumaEvents(month, name) ==
    SelectSeq(get_month_entries(events_feed, month),
              LAMBDA e : e.kind = "trauma" /\ e.who = name)

\* the phases of a month that come after the desire loop
AfterDesires == {"plan", "target", "collect", "evaluate", "apply", "solo", "diary"}

\* in an executed month, once the overrides are applied: one trauma event for
\* each agent whose override has trauma_increase > 0, and the blessing at 0.2
\* for the agents whose override has bless set, at 0 for all others
OverridesApplied ==
    pc \in AfterDesires =>
        \A k \in 1..N :
            LET has == agents[k].label \in DOMAIN agent_overrides
                override == agent_overrides[agents[k].label]
            IN  /\ (has /\ override.trauma_increase > 0) =>
                      Len(TraumaEvents(current_month, agents[k].name)) = 1
                /\ agents[k].destiny_blessing
                      = (IF has /\ override.bless THEN 2000 ELSE 0)

\* no step of run_month writes world.agent_overrides, and the step that
\* applies an override with trauma_increase t > 0 raises trauma_level by t, up
\* to 100
OverridesKept ==
    /\ (pc # "idle" \/ pc' # "idle") => agent_overrides' = agent_overrides
    /\ (pc = "desires" /\ idx <= N
        /\ agents[idx].label \in DOMAIN agent_overrides
        /\ agent_overrides[agents[idx].label].trauma_increase > 0) =>
           agents'[idx].trauma_level
              = Min(10000, agents[idx].trauma_level
                           + agent_overrides[agents[idx].label].trauma_increase)

\* C26: run_month never adds, removes or alters an entry of
\* world.agent_overrides, so an override is not used up by the month that
\* applies it: an override with trauma_increase t > 0 raises the agent's
\* trauma_level by t (held at 100) and emits one trauma event in every
\* executed month for as long as the entry stays in the map, and
\* destiny_blessing is 0.2 after a month iff the agent's override has bless
\* set, else 0.
C26_OverridesNotConsumed == []OverridesApplied /\ [][OverridesKept]_vars

\* the second month runs under the override of the first: the agent's trauma
\* went from 0 to 15 to 30, with one trauma event in each month
C26_Witness ==
    /\ current_month = 2 /\ pc = "plan"
    /\ \E k \in 1..N :
          /\ agents[k].label \in DOMAIN agent_overrides
          /\ agent_overrides[agents[k].label].trauma_increase = 1500
          /\ agents[k].trauma_level = 3000
          /\ agents[k].destiny_blessing = 2000
          /\ Len(TraumaEvents(1, agents[k].name)) = 1
          /\ Len(TraumaEvents(2, agents[k].name)) = 1


\* no step lowers the trauma_level of an agent
TraumaNotLowered ==
    (\A l \in DOMAIN agent_overrides : agent_overrides[l].trauma_increase >= 0) =>
        /\ Len(agents') = Len(agents)
        /\ \A k \in 1..N : agents'[k].trauma_level >= agents[k].trauma_level

\* C27: in any run in which every override has trauma_increase >= 0, each
\* agent's trauma_level never decreases: no phase of run_month (desires,
\* planning, interactions, solo actions including rest, diaries) lowers it.
C27_TraumaMonotone == [][TraumaNotLowered]_vars

\* in the second month an agent that carries trauma has taken a major rest
C27_Witness ==
    /\ pc = "solo" /\ idx > 1 /\ current_month = 2
    /\ agents[idx - 1].trauma_level > 0
    /\ agents[idx - 1].trauma_level < 10000
    /\ agents[idx - 1].label \in DOMAIN agent_actions_map
    /\ agent_actions_map[agents[idx - 1].label][1].action_type = "MAJOR_REST"
    /\ agent_actions_map[agents[idx - 1].label][1].target_labels = NoneList


\* C28: every increment of current_month by run_month comes with the full
\* phase sequence: for any World (any themes list, the empty one included),
\* after any sequence of run_month calls starting at month 0, every agent has
\* a diary_log entry for every month m with 1 <= m <= current_month.
C28_DiaryEveryMonth ==
    pc = "idle" =>
        \A k \in 1..N : \A m \in 1..current_month :
            m \in DOMAIN agents[k].diary_log


\* the bias get_destiny_bias would give an agent under a given strength
BiasUnder(agent, strength) ==
    LET base == Bounded(agent.destiny_seed + agent.destiny_blessing)
        bias == (base * strength) \div 10000
    IN  IF bias > 15000 THEN 15000 ELSE bias

\* C29: every destiny bias computed while a World is being stepped, by
\* run_full_simulation or by a direct run_month call, is the one given by that
\* World's destiny_strength field clamped to [0, 100].
C29_WorldDestinyStrength ==
    (pc \in {"desires", "plan", "target", "collect", "evaluate", "apply", "solo", "diary"}
        /\ entry = "run_month") =>
        \A k \in 1..N :
            get_destiny_bias(agents[k]) = BiasUnder(agents[k], Bounded(destiny_strength))


\* what the adjustment does to the six desires of one agent
OrderKept(agent) ==
    \A X, Y \in DomainSet :
        LET rawX == DesireOf(agent, X)
            rawY == DesireOf(agent, Y)
            adjX == Adjusted(agent, X)
            adjY == Adjusted(agent, Y)
        IN  /\ rawX >= rawY => adjX >= adjY
            /\ (rawX > rawY /\ adjX = adjY) => adjX \in {0, 10000}
            /\ adjX - rawX \in -400..400
            /\ (adjX \notin {0, 10000} /\ adjY \notin {0, 10000}) =>
                    adjX - rawX = adjY - rawY

\* C30: the destiny bias adjustment preserves the order of an agent's
\* desires: a raw desire at least as large as another stays at least as large
\* after apply_destiny_bias, the adjustment lies in [-4, +4], and a strict
\* order becomes a tie only at the clamp bounds 0 or 100, never a reversal.
C30_BiasKeepsOrder == \A k \in 1..N : OrderKept(agents[k])

\* an agent with a non-zero adjustment whose two different raw desires are
\* both clamped to the same bound
C30_Witness ==
    \E k \in 1..N : \E X, Y \in DomainSet :
        /\ DesireOf(agents[k], X) > DesireOf(agents[k], Y)
        /\ Adjusted(agents[k], X) = Adjusted(agents[k], Y)
        /\ get_destiny_bias(agents[k]) # 5000
        /\ last_call.op = "plan_agent_actions"
        /\ last_call.index = k

====
